---------------------------- MODULE Spec2Model ----------------------------
(***************************************************************************)
(* Threshold key custody of AlgoAuth / BlockSafe.                          *)
(*                                                                         *)
(*   - the GF(256) engine, splitSecret and reconstructSecret of the        *)
(*     frontend library (lib/shamirSecretSharing),                         *)
(*   - the hex wire encoding of shares,                                    *)
(*   - the API server's in-memory stores and its upload, share, delete,    *)
(*     group and key-release handlers,                                     *)
(*   - the browser handlers that upload a file and recover its key,        *)
(*   - the Trustless Trio node keys and the node routes of the server,     *)
(*     with the browser's X25519 box helpers (lib/x25519),                 *)
(*   - the payload cipher (lib/aesEncryption),                             *)
(*   - the FileRegistry and GroupRegistry contracts,                       *)
(*   - the login routes of the API server.                                 *)
(*                                                                         *)
(* Bytes are the integers 0..255.  A Uint8Array is a sequence of bytes; a  *)
(* JavaScript index i is the TLA+ index i+1.  A thrown Error is a result   *)
(* record with ok = FALSE and the message in error.                        *)
(***************************************************************************)
EXTENDS Integers, Sequences, FiniteSets, TLC

VARIABLES
    \* ---- the Shamir library under test (pure functions and their inputs)
    sSecret,      \* the secret passed to splitSecret
    sN,           \* n, the number of shares asked for
    sK,           \* k, the threshold asked for
    sRnd,         \* the bytes crypto.getRandomValues produced, per secret byte
    sShares,      \* what splitSecret returned (or threw)
    rInput,       \* the share array passed to reconstructSecret
    rResult,      \* what reconstructSecret returned (or threw)
    sPc,          \* "start" | "split" | "selected" | "done" | "off"
    \* ---- the hex wire encoding under test
    hShare,       \* the bytes passed to shareToHex
    hHex,         \* what shareToHex returned
    hBack,        \* what hexToShare returned for hHex
    hPc,          \* "start" | "encoded" | "decoded" | "off"
    \* ---- the API server (in-memory stores) and its clock
    filesStore,   \* address -> FileItem[]
    sharesStore,  \* recipientAddress -> SharedFileItem[]
    groupsStore,  \* groupId -> group, kept as the sequence of groups created
    auditLog,     \* the audit entries, oldest first
    nextId,       \* the uuids handed out so far are 1..nextId-1
    now,          \* Date.now(), in milliseconds
    resp,         \* the last HTTP response the server sent
    release,      \* the locals of the last key-release handler run
    \* ---- the browsers
    session,      \* per user, sessionStorage's key_<file id> entries
    uploadKey,    \* per file id, the keyBytes the upload handler split
    download,     \* the outcome of handleDownload, when it was the last to run
    \* ---- the Trustless Trio node keys and routes
    nEnv,         \* process.env's NODE_<X>_PRIVATE_KEY, per node
    nodeKeys,     \* per node, publicKey (Base64) and secretKey
    nPrev,        \* the public keys of the process before the last restart
    nStarts,      \* how many times the process was started
    nLog,         \* the lines the process wrote to the console
    nHeld,        \* the EncryptedShare a browser holds, and what it seals
    nReq,         \* the last request to a node route
    nResp,        \* the response to it
    nLocals,      \* decryptedShare of the last re-encrypt handler run
    nOpened,      \* what the recipient's decryptFromSender returned
    \* ---- the payload cipher under test
    aIn,          \* the plaintext, key and IV of encryptAES
    aBlob,        \* what encryptAES returned, and what became of it
    aOut,         \* the key decryptAES was given, and what it returned
    aPc,          \* "start" | "encrypted" | "tampered" | "decrypted" | "off"
    \* ---- the FileRegistry contract on the chain
    registry,     \* the global state and the boxes of the application
    frTxn,        \* the last transaction evaluated, and whether it was accepted
    frTime,       \* Global.latestTimestamp
    frTxns,       \* how many transactions were evaluated
    frHistory,    \* what the accepted transactions did, as the callers saw it
    \* ---- the GroupRegistry contract on the chain
    groupRegistry,\* the global state and the boxes of the application
    grTxn,        \* the last transaction evaluated, and whether it was accepted
    grTxns,       \* how many transactions were evaluated
    grInvited,    \* the invitations a joined admin issued that still stand
    \* ---- the login routes of the API server
    authNonces,   \* nonces: address -> { nonce, message, expiresAt }
    authUsers,    \* users: address -> { address, createdAt }
    authNow,      \* Date.now() as the login routes read it
    authResp,     \* the last login request and what was answered
    authLedger,   \* the nonce last issued per address and the tokens it yielded
    authCount,    \* how many login requests and clock steps there were
    \* ---- the field engine under test
    fA,           \* the first operand of gfMul or gfDiv
    fB,           \* the second operand
    fOut,         \* what the last call returned (DivByZero when it threw)
    fPc           \* "start" | "mul" | "div" | "muldiv" | "divmul" | "off"

shamirVars == <<sSecret, sN, sK, sRnd, sShares, rInput, rResult, sPc>>
storeVars == <<filesStore, sharesStore, groupsStore, auditLog>>
serverVars == <<storeVars, nextId, now, resp, release>>
clientVars == <<session, uploadKey, download>>
hexVars == <<hShare, hHex, hBack, hPc>>
\* the variables of the libraries driven on their own
nodeVars == <<nEnv, nodeKeys, nPrev, nStarts, nLog, nHeld, nReq, nResp, nLocals, nOpened>>
aesVars == <<aIn, aBlob, aOut, aPc>>
chainVars == <<registry, frTxn, frTime, frTxns, frHistory>>
groupVars == <<groupRegistry, grTxn, grTxns, grInvited>>
authVars == <<authNonces, authUsers, authNow, authResp, authLedger, authCount>>
fieldVars == <<fA, fB, fOut, fPc>>
libVars == <<shamirVars, hexVars, nodeVars, aesVars, chainVars, groupVars, authVars, fieldVars>>
vars == <<libVars, serverVars, clientVars>>

-----------------------------------------------------------------------------
(* Bounds of the model *)

\* longest secret, in bytes
MaxLen == 1
\* largest n for which every ordered subset of the shares is reconstructed
MaxN == 3
\* largest x-coordinate of a hand-made (not split-produced) share
MaxX == 2
\* most shares in a hand-made input of reconstructSecret
MaxArb == 3
\* the longest byte sequence the hex encoding is tried on (beside all single bytes)
MaxHexLen == 2

\* secret bytes and random coefficient bytes the inputs are drawn from
SecretBytes == {0, 83, 255}
RandBytes == {0, 202}

-----------------------------------------------------------------------------
(* Results of operations that may throw *)

Ok(v) == [ok |-> TRUE, error |-> "", value |-> v]
Err(msg) == [ok |-> FALSE, error |-> msg, value |-> <<>>]
None == [ok |-> FALSE, error |-> "not called", value |-> <<>>]

-----------------------------------------------------------------------------
(* Finite-field engine: GF(2^8) modulo 0x11B, generator 3 *)

\* the ^ operator of JavaScript on non-negative integers
RECURSIVE Xor(_, _)
Xor(a, b) ==
    IF a = 0 THEN b
    ELSE IF b = 0 THEN a
    ELSE (((a % 2) + (b % 2)) % 2) + 2 * Xor(a \div 2, b \div 2)

\* new Uint8Array(256): all zero, indices 0..255
ZeroTable == [i \in 0..255 |-> 0]

\* one round of the loop body of initTables: x = x ^ (x << 1); if (x >= 256) x ^= 0x11b
NextPower(x) ==
    LET y == Xor(x, 2 * x)
    IN  IF y >= 256 THEN Xor(y, 283) ELSE y

\* the for loop of initTables; t holds the loop's variables i and x and the
\* two tables as built so far, and the loop is run up to iteration stop
RECURSIVE InitTablesLoop(_, _)
InitTablesLoop(t, stop) ==
    IF t.i >= stop THEN t
    ELSE InitTablesLoop([i   |-> t.i + 1,
                         x   |-> NextPower(t.x),
                         exp |-> [t.exp EXCEPT ![t.i] = t.x],
                         log |-> [t.log EXCEPT ![t.x] = t.i]], stop)

initTables ==
    LET t0 == [i |-> 0, x |-> 1, exp |-> ZeroTable, log |-> ZeroTable]
        t1 == InitTablesLoop(t0, 64)
        t2 == InitTablesLoop(t1, 128)
        t3 == InitTablesLoop(t2, 192)
        t  == InitTablesLoop(t3, 255)
    IN  [exp |-> [t.exp EXCEPT ![255] = t.exp[0]], log |-> t.log]

EXP_TABLE == initTables.exp
LOG_TABLE == initTables.log

\* the value that stands for gfDiv's thrown 'Division by zero in GF(256)'
DivByZero == -1

\* gfMul reducing the exponent modulo 256 instead of 255
gfMul_Mod256(a, b) ==
    IF a = 0 \/ b = 0 THEN 0
    ELSE EXP_TABLE[(LOG_TABLE[a] + LOG_TABLE[b]) % 256]

\* gfMul without its zero test
gfMul_NoZeroTest(a, b) ==
    EXP_TABLE[(LOG_TABLE[a] + LOG_TABLE[b]) % 255]

gfMul(a, b) ==
    IF a = 0 \/ b = 0 THEN 0
    ELSE EXP_TABLE[(LOG_TABLE[a] + LOG_TABLE[b]) % 255]

\* gfDiv without its zero-divisor check
gfDiv_NoZeroCheck(a, b) ==
    IF a = 0 \/ b = 0 THEN 0
    ELSE EXP_TABLE[(LOG_TABLE[a] - LOG_TABLE[b] + 255) % 255]

\* gfDiv testing the dividend before the divisor
gfDiv_DividendFirst(a, b) ==
    IF a = 0 THEN 0
    ELSE IF b = 0 THEN DivByZero
    ELSE EXP_TABLE[(LOG_TABLE[a] - LOG_TABLE[b] + 255) % 255]

gfDiv(a, b) ==
    IF b = 0 THEN DivByZero
    ELSE IF a = 0 THEN 0
    ELSE EXP_TABLE[(LOG_TABLE[a] - LOG_TABLE[b] + 255) % 255]

-----------------------------------------------------------------------------
(* Secret splitter and reconstructor *)

\* evaluatePolynomial: Horner's rule from the highest coefficient down;
\* coefficients[i] of the code is coefficients[i + 1] here
RECURSIVE HornerFrom(_, _, _, _)
HornerFrom(coefficients, x, i, result) ==
    IF i < 0 THEN result
    ELSE HornerFrom(coefficients, x, i - 1,
                    Xor(gfMul(result, x), coefficients[i + 1]))

\* evaluatePolynomial with the loop started one coefficient too low
evaluatePolynomial_SkipTop(coefficients, x) ==
    HornerFrom(coefficients, x, Len(coefficients) - 2, 0)

evaluatePolynomial(coefficients, x) ==
    HornerFrom(coefficients, x, Len(coefficients) - 1, 0)

\* what crypto.getRandomValues may write for a secret of this length; it is
\* not called when splitSecret throws first
RandomDraws(len, n, k) ==
    IF k > n \/ k < 2 \/ n > 255 THEN {<<>>}
    ELSE [1..len -> [1..(k - 1) -> RandBytes]]

\* splitSecret with the share limit off by one
splitSecret_Max256(secret, n, k, rnd) ==
    IF k > n THEN Err("Threshold must be <= number of shares")
    ELSE IF k < 2 THEN Err("Threshold must be >= 2")
    ELSE IF n > 256 THEN Err("Max 255 shares")
    ELSE Ok([i \in 1..n |->
               <<i>> \o [b \in 1..Len(secret) |->
                           evaluatePolynomial(<<secret[b]>> \o rnd[b], i)]])

\* splitSecret(secret, n, k); rnd[b] are the k-1 bytes crypto.getRandomValues
\* wrote into coefficients.subarray(1) for secret byte b
splitSecret(secret, n, k, rnd) ==
    IF k > n THEN Err("Threshold must be <= number of shares")
    ELSE IF k < 2 THEN Err("Threshold must be >= 2")
    ELSE IF n > 255 THEN Err("Max 255 shares")
    ELSE Ok([i \in 1..n |->
               <<i>> \o [b \in 1..Len(secret) |->
                           evaluatePolynomial(<<secret[b]>> \o rnd[b], i)]])

\* the inner loops without the i !== j test
RECURSIVE LagrangeLoop_NoSkip(_, _, _, _, _)
LagrangeLoop_NoSkip(xs, i, j, numerator, denominator) ==
    IF j > Len(xs) THEN [numerator |-> numerator, denominator |-> denominator]
    ELSE LagrangeLoop_NoSkip(xs, i, j + 1, gfMul(numerator, xs[j]),
                             gfMul(denominator, Xor(xs[i], xs[j])))

\* the two inner loops of reconstructSecret for share i: numerator and
\* denominator of the Lagrange coefficient at x = 0
RECURSIVE LagrangeLoop(_, _, _, _, _)
LagrangeLoop(xs, i, j, numerator, denominator) ==
    IF j > Len(xs) THEN [numerator |-> numerator, denominator |-> denominator]
    ELSE IF i # j
         THEN LagrangeLoop(xs, i, j + 1, gfMul(numerator, xs[j]),
                           gfMul(denominator, Xor(xs[i], xs[j])))
         ELSE LagrangeLoop(xs, i, j + 1, numerator, denominator)

\* the loop over the shares for one byte position; a throw of gfDiv ends it
RECURSIVE InterpolateFrom(_, _, _, _, _)
InterpolateFrom(shares, xs, byteIdx, i, result) ==
    IF i > Len(shares) THEN result
    ELSE LET nd == LagrangeLoop(xs, i, 1, 1, 1)
             lagrangeCoeff == gfDiv(nd.numerator, nd.denominator)
         IN  IF lagrangeCoeff = DivByZero THEN DivByZero
             ELSE InterpolateFrom(shares, xs, byteIdx, i + 1,
                      Xor(result, gfMul(shares[i][byteIdx + 1], lagrangeCoeff)))

\* reconstructSecret accepting a single share
reconstructSecret_MinOne(shares) ==
    IF Len(shares) < 1 THEN Err("Need at least 2 shares")
    ELSE LET secretLength == Len(shares[1]) - 1
             xs == [i \in 1..Len(shares) |-> shares[i][1]]
             secret == [byteIdx \in 1..secretLength |->
                          InterpolateFrom(shares, xs, byteIdx, 1, 0)]
         IN  IF \E b \in 1..secretLength : secret[b] = DivByZero
             THEN Err("Division by zero in GF(256)")
             ELSE Ok(secret)

\* reconstructSecret(shares); byteIdx is the byte's index in the secret (1-based)
reconstructSecret(shares) ==
    IF Len(shares) < 2 THEN Err("Need at least 2 shares")
    ELSE LET secretLength == Len(shares[1]) - 1
             xs == [i \in 1..Len(shares) |-> shares[i][1]]
             secret == [byteIdx \in 1..secretLength |->
                          InterpolateFrom(shares, xs, byteIdx, 1, 0)]
         IN  IF \E b \in 1..secretLength : secret[b] = DivByZero
             THEN Err("Division by zero in GF(256)")
             ELSE Ok(secret)

-----------------------------------------------------------------------------
(* Hex wire encoding.  A string is the sequence of its characters. *)

HexDigits == <<"0", "1", "2", "3", "4", "5", "6", "7",
               "8", "9", "a", "b", "c", "d", "e", "f">>
UpperDigits == <<"A", "B", "C", "D", "E", "F">>

\* b.toString(16)
toString16(b) ==
    IF b < 16 THEN <<HexDigits[b + 1]>>
    ELSE <<HexDigits[(b \div 16) + 1], HexDigits[(b % 16) + 1]>>

\* a variant that leaves out the padding
padStart2_NoPad(str) == str

\* str.padStart(2, '0')
padStart2(str) == IF Len(str) < 2 THEN <<"0">> \o str ELSE str

\* Array.from(bytes).map(b => b.toString(16).padStart(2, '0')).join('')
RECURSIVE JoinHex(_, _)
JoinHex(bytes, i) ==
    IF i > Len(bytes) THEN <<>>
    ELSE padStart2(toString16(bytes[i])) \o JoinHex(bytes, i + 1)

shareToHex(share) == JoinHex(share, 1)

\* the same conversion, written out inline for the key in the upload handlers
keyToHex(keyBytes) == JoinHex(keyBytes, 1)

\* the value of one character as a base-16 digit, or -1 when it is none
HexVal(c) ==
    IF \E d \in 1..16 : HexDigits[d] = c
    THEN (CHOOSE d \in 1..16 : HexDigits[d] = c) - 1
    ELSE IF \E d \in 1..6 : UpperDigits[d] = c
    THEN (CHOOSE d \in 1..6 : UpperDigits[d] = c) + 9
    ELSE -1

\* parseInt called without the radix: only decimal digits count
parseInt16_Radix10(str) ==
    IF Len(str) = 0 \/ HexVal(str[1]) < 0 \/ HexVal(str[1]) > 9 THEN 0
    ELSE IF Len(str) = 1 \/ HexVal(str[2]) < 0 \/ HexVal(str[2]) > 9 THEN HexVal(str[1])
    ELSE 10 * HexVal(str[1]) + HexVal(str[2])

\* parseInt(str, 16) of a string of at most two characters, stored into a
\* Uint8Array element: the longest prefix of digits counts, NaN is stored as 0
parseInt16(str) ==
    IF Len(str) = 0 \/ HexVal(str[1]) < 0 THEN 0
    ELSE IF Len(str) = 1 \/ HexVal(str[2]) < 0 THEN HexVal(str[1])
    ELSE 16 * HexVal(str[1]) + HexVal(str[2])

\* hexToShare: hex.length / 2 elements (an odd trailing character is dropped)
hexToShare(hex) ==
    [i \in 1..(Len(hex) \div 2) |-> parseInt16(SubSeq(hex, 2 * i - 1, 2 * i))]

-----------------------------------------------------------------------------
(* The API server: data *)

Users == {"addrA", "addrB"}

\* most uuids handed out (files, share entries and groups together)
MaxIds == 2
\* most entries the audit log reaches: every mutating request adds one
MaxAudit == 3
\* most clock ticks
MaxTicks == 2

\* milliseconds per second: expiresIn is in seconds, Date.now() in
\* milliseconds; the model's clock starts at, and advances by, one second
TickMs == 1000

\* null, undefined and '' are all falsy; the handlers store x || null
NullKey == <<>>
\* groupId: null for a personal file
NoGroup == 0

nodeNames == <<"alpha", "beta", "gamma">>

\* the keys files are encrypted with (stand-ins for the 32 bytes of AES-256)
Keys == {<<83>>, <<255>>}

\* (arr || []).find(pred): the first position that matches, 0 for undefined
FindFirst(arr, Pred(_)) ==
    IF \E i \in 1..Len(arr) : Pred(arr[i])
    THEN CHOOSE i \in 1..Len(arr) : Pred(arr[i]) /\ \A j \in 1..(i - 1) : ~Pred(arr[j])
    ELSE 0

\* addAudit: push, and drop the oldest entry beyond 500
AuditCap == 500
addAudit(log, type, actor, fileId, target) ==
    LET pushed == Append(log, [type |-> type, actor |-> actor,
                               fileId |-> fileId, target |-> target])
    IN  IF Len(pushed) > AuditCap THEN Tail(pushed) ELSE pushed

Response(op, user, status, body) ==
    [op |-> op, user |-> user, status |-> status, body |-> body]
Error(msg) == [error |-> msg]

NoRelease == [sharded |-> FALSE, allShares |-> <<>>, indices |-> <<>>, picked |-> <<>>]
NoDownload == [user |-> "", fileId |-> 0, cached |-> FALSE, status |-> 0, keyHex |-> NullKey]

ServerInit ==
    /\ filesStore = [u \in Users |-> <<>>]
    /\ sharesStore = [u \in Users |-> <<>>]
    /\ groupsStore = <<>>
    /\ auditLog = <<>>
    /\ nextId = 1
    /\ now = TickMs
    /\ resp = Response("none", "", 0, <<>>)
    /\ release = NoRelease
    /\ session = [u \in Users |-> [f \in 1..MaxIds |-> NullKey]]
    /\ uploadKey = [f \in 1..MaxIds |-> <<>>]
    /\ download = NoDownload

-----------------------------------------------------------------------------
(* The API server: file and sharing routes *)

\* the position (1-based) of user u's file with this id, 0 when there is none
FileIdx(u, id) == FindFirst(filesStore[u], LAMBDA f : f.id = id)
LiveFileIdx(u, id) == FindFirst(filesStore[u], LAMBDA f : f.id = id /\ ~f.isDeleted)
ShareIdx(u, id) == FindFirst(sharesStore[u], LAMBDA sh : sh.id = id)

\* a mutating request is modelled while the id and audit budgets last
Budget == nextId <= MaxIds /\ Len(auditLog) < MaxAudit

\* JSON.stringify of an array of strings, and the upload route's
\* try { shares = JSON.parse(sharesJson) } catch { }
JSONstringify(arr) == [kind |-> "array", value |-> arr]
BadJson == [kind |-> "invalid", value |-> <<>>]
ParseShares(sharesJson) ==
    IF sharesJson.kind = "array" THEN sharesJson.value ELSE <<>>

\* POST /api/files/upload (the dev path: no Pinata call, so no failure)
UploadHandler(u, encryptionKey, sharesJson, groupId) ==
    LET fileItem == [id            |-> nextId,
                     owner         |-> u,
                     isDeleted     |-> FALSE,
                     encryptionKey |-> encryptionKey,
                     shares        |-> ParseShares(sharesJson),
                     groupId       |-> groupId]
    IN  /\ filesStore' = [filesStore EXCEPT ![u] = Append(@, fileItem)]
        /\ auditLog' = addAudit(auditLog, "FILE_UPLOAD", u, fileItem.id, "")
        /\ nextId' = nextId + 1
        /\ resp' = Response("upload", u, 200,
                            [id |-> fileItem.id, owner |-> u,
                             isDeleted |-> FALSE, groupId |-> groupId])
        /\ release' = NoRelease
        /\ download' = NoDownload
        /\ UNCHANGED <<sharesStore, groupsStore, now>>

\* the groups GET /api/groups lists for u: those with a member entry for u
GroupsOf(u) ==
    {groupsStore[g].id : g \in {h \in 1..Len(groupsStore) :
        \E m \in 1..Len(groupsStore[h].members) :
            groupsStore[h].members[m].address = u}}

\* handleFileUpload of MyFilesPage (groupId absent) and the group upload of
\* OrganizationsPage (groupId of a listed group): encrypt, split the key
\* 2-of-3, post key and shares, keep the key in sessionStorage
ClientUpload(u, keyBytes, rnd, groupId) ==
    /\ Budget
    /\ LET shares == splitSecret(keyBytes, 3, 2, rnd).value
           shareHexes == [i \in 1..Len(shares) |-> shareToHex(shares[i])]
           keyHex == keyToHex(keyBytes)
       IN  /\ UploadHandler(u, keyHex, JSONstringify(shareHexes), groupId)
           /\ session' = [session EXCEPT ![u][nextId] = keyHex]
           /\ uploadKey' = [uploadKey EXCEPT ![nextId] = keyBytes]

\* any other client of the upload route: the fields are whatever it sends
ApiUpload(u, encryptionKey, sharesJson, groupId) ==
    /\ Budget
    /\ UploadHandler(u, encryptionKey, sharesJson, groupId)
    /\ UNCHANGED <<session, uploadKey>>

\* GET /api/files/:id/key
GetOwnerKey(u, id) ==
    /\ LET i == FileIdx(u, id)
       IN  resp' = IF i = 0
                   THEN Response("ownerKey", u, 404, Error("File not found"))
                   ELSE Response("ownerKey", u, 200,
                            [encryptionKey |-> filesStore[u][i].encryptionKey,
                             shares |-> filesStore[u][i].shares])
    /\ release' = NoRelease
    /\ download' = NoDownload
    /\ UNCHANGED <<storeVars, nextId, now, session, uploadKey>>

\* DELETE /api/files/:id
DeleteFile(u, id) ==
    /\ LET i == FileIdx(u, id)
       IN  IF i = 0
           THEN /\ resp' = Response("delete", u, 404, Error("File not found"))
                /\ UNCHANGED <<filesStore, auditLog>>
           ELSE /\ Len(auditLog) < MaxAudit
                /\ filesStore' = [filesStore EXCEPT ![u][i].isDeleted = TRUE]
                /\ auditLog' = addAudit(auditLog, "FILE_DELETE", u, id, "")
                /\ resp' = Response("delete", u, 200, [success |-> TRUE])
    /\ release' = NoRelease
    /\ download' = NoDownload
    /\ UNCHANGED <<sharesStore, groupsStore, nextId, now, session, uploadKey>>

\* POST /api/files/:id/share
ShareFile(u, id, recipientAddress, expiresIn) ==
    /\ LET i == LiveFileIdx(u, id)
       IN  IF i = 0
           THEN /\ resp' = Response("share", u, 404, Error("File not found"))
                /\ UNCHANGED <<sharesStore, auditLog, nextId>>
           ELSE LET file == filesStore[u][i]
                    shareItem ==
                        [id            |-> nextId,
                         fileId        |-> file.id,
                         owner         |-> u,
                         encryptionKey |-> file.encryptionKey,
                         shares        |-> file.shares,
                         expiresAt     |-> IF expiresIn > 0
                                           THEN now + expiresIn * TickMs ELSE 0]
                IN  /\ Budget
                    /\ sharesStore' =
                           [sharesStore EXCEPT ![recipientAddress] = Append(@, shareItem)]
                    /\ auditLog' = addAudit(auditLog, "FILE_SHARE", u, file.id,
                                            recipientAddress)
                    /\ nextId' = nextId + 1
                    /\ resp' = Response("share", u, 200,
                                        [success |-> TRUE, shareId |-> shareItem.id])
    /\ release' = NoRelease
    /\ download' = NoDownload
    /\ UNCHANGED <<filesStore, groupsStore, now, session, uploadKey>>

\* the filter of GET /api/files/shared: the entry is not expired
ActiveShare(share, ts) ==
    share.expiresAt = 0 \/ share.expiresAt > ts

RECURSIVE FilterActive(_, _)
FilterActive(shared, ts) ==
    IF shared = <<>> THEN <<>>
    ELSE (IF ActiveShare(Head(shared), ts) THEN <<Head(shared)>> ELSE <<>>)
             \o FilterActive(Tail(shared), ts)

\* GET /api/files/shared: the response
SharedListHandler(u) ==
    Response("sharedList", u, 200, [files |-> FilterActive(sharesStore[u], now)])

ListShared(u) ==
    /\ resp' = SharedListHandler(u)
    /\ release' = NoRelease
    /\ download' = NoDownload
    /\ UNCHANGED <<storeVars, nextId, now, session, uploadKey>>

-----------------------------------------------------------------------------
(* Quorum release *)

\* [a[i], a[j]] = [a[j], a[i]] on 0-based positions
Swap(a, i, j) == [a EXCEPT ![i + 1] = a[j + 1], ![j + 1] = a[i + 1]]

\* a variant of the loop that starts one position too low, so that the last
\* position is never swapped
ShuffleFrom_SkipLast(indices, i, js) ==
    IF i <= 1 THEN indices ELSE Swap(indices, 1, js[1])

\* the shuffle loop from position i down to 1; js[i] is the value of
\* Math.floor(Math.random() * (i + 1)) in round i
RECURSIVE ShuffleFrom(_, _, _)
ShuffleFrom(indices, i, js) ==
    IF i <= 0 THEN indices
    ELSE ShuffleFrom(Swap(indices, i, js[i]), i - 1, js)

\* what Math.random can make of the two rounds; it is called only on the
\* branch that shuffles
RandomJs(allShares) ==
    IF Len(allShares) >= 3
    THEN {js \in [1..2 -> 0..2] : \A i \in 1..2 : js[i] <= i}
    ELSE {<<0, 0>>}

\* the shares on file for a share entry or a group file, <<>> if there is none
SharesOnFile(u, shareId) ==
    IF ShareIdx(u, shareId) = 0 THEN <<>>
    ELSE sharesStore[u][ShareIdx(u, shareId)].shares

\* a variant that names the first two nodes whatever was picked
SelectQuorum_FirstTwoNodes(allShares, js) ==
    IF Len(allShares) >= 3
    THEN LET indices == ShuffleFrom(<<0, 1, 2>>, 2, js)
             picked == SubSeq(indices, 1, 2)
         IN  [sharded        |-> TRUE,
              allShares      |-> allShares,
              indices        |-> indices,
              picked         |-> picked,
              releasedShares |-> [p \in 1..2 |-> allShares[picked[p] + 1]],
              releasedNodes  |-> SubSeq(nodeNames, 1, 2)]
    ELSE [sharded |-> FALSE, allShares |-> allShares, indices |-> <<>>,
          picked |-> <<>>, releasedShares |-> <<>>, releasedNodes |-> <<>>]

\* the body shared, line for line, by the two key-release routes: with 3 or
\* more shares on file shuffle [0, 1, 2] and release the first two
SelectQuorum(allShares, js) ==
    IF Len(allShares) >= 3
    THEN LET indices == ShuffleFrom(<<0, 1, 2>>, 2, js)
             picked == SubSeq(indices, 1, 2)
         IN  [sharded        |-> TRUE,
              allShares      |-> allShares,
              indices        |-> indices,
              picked         |-> picked,
              releasedShares |-> [p \in 1..2 |-> allShares[picked[p] + 1]],
              releasedNodes  |-> [p \in 1..2 |-> nodeNames[picked[p] + 1]]]
    ELSE [sharded |-> FALSE, allShares |-> allShares, indices |-> <<>>,
          picked |-> <<>>, releasedShares |-> <<>>, releasedNodes |-> <<>>]

\* a variant that sends the key only beside a quorum of shares
KeyBody_KeyWithShares(encryptionKey, q) ==
    [encryptionKey |-> IF q.sharded THEN encryptionKey ELSE NullKey,
     shares        |-> q.releasedShares,
     releasedNodes |-> q.releasedNodes,
     threshold     |-> 2,
     totalShares   |-> 3]

\* the body of a key-release response
KeyBody(encryptionKey, q) ==
    [encryptionKey |-> encryptionKey,
     shares        |-> q.releasedShares,
     releasedNodes |-> q.releasedNodes,
     threshold     |-> 2,
     totalShares   |-> 3]

ReleaseLocals(q) ==
    [sharded |-> q.sharded, allShares |-> q.allShares,
     indices |-> q.indices, picked |-> q.picked]

\* GET /api/files/shared/:shareId/key: the response and the handler's locals
SharedKeyHandler(u, shareId, js) ==
    LET i == ShareIdx(u, shareId)
        share == sharesStore[u][i]
        q == SelectQuorum(share.shares, js)
    IN  IF i = 0
        THEN [resp |-> Response("sharedKey", u, 404, Error("Share not found")),
              release |-> NoRelease]
        ELSE IF share.expiresAt > 0 /\ share.expiresAt < now
        THEN [resp |-> Response("sharedKey", u, 410, Error("Share has expired")),
              release |-> NoRelease]
        ELSE [resp |-> Response("sharedKey", u, 200, KeyBody(share.encryptionKey, q)),
              release |-> ReleaseLocals(q)]

GetSharedKey(u, shareId, js) ==
    /\ LET r == SharedKeyHandler(u, shareId, js)
       IN  resp' = r.resp /\ release' = r.release
    /\ download' = NoDownload
    /\ UNCHANGED <<storeVars, nextId, now, session, uploadKey>>

\* the key handleDownload makes of a key-release response: rebuilt from the
\* released shares when there are 2 or more, else the key sent directly
\* (a throw of reconstructSecret lands in the catch: no key)
RebuiltKeyHex(rebuilt) ==
    IF rebuilt.ok THEN keyToHex(rebuilt.value) ELSE NullKey

KeyFromResponse(r) ==
    IF r.status # 200 THEN NullKey
    ELSE IF Len(r.body.shares) >= 2
    THEN RebuiltKeyHex(reconstructSecret([p \in 1..Len(r.body.shares) |->
                                             hexToShare(r.body.shares[p])]))
    ELSE r.body.encryptionKey

DownloadFetched(u, file, r, keyHex) ==
    /\ resp' = r.resp
    /\ release' = r.release
    /\ session' = IF keyHex # NullKey
                  THEN [session EXCEPT ![u][file.fileId] = keyHex]
                  ELSE session
    /\ download' = [user |-> u, fileId |-> file.fileId, cached |-> FALSE,
                    status |-> r.resp.status, keyHex |-> keyHex]
    /\ UNCHANGED <<storeVars, nextId, now, uploadKey>>

DownloadCached(u, file, cachedKey) ==
    /\ download' = [user |-> u, fileId |-> file.fileId, cached |-> TRUE,
                    status |-> 0, keyHex |-> cachedKey]
    /\ UNCHANGED <<serverVars, session, uploadKey>>

DownloadEntry(u, file, r) ==
    IF session[u][file.fileId] # NullKey
    THEN DownloadCached(u, file, session[u][file.fileId])
    ELSE DownloadFetched(u, file, r, KeyFromResponse(r.resp))

\* handleDownload of SharedWithMePage for an entry of the user's shared list:
\* take the key from sessionStorage, else ask the key route and rebuild the
\* key from the released shares (or take the key sent directly)
handleDownload(u, i, js) ==
    DownloadEntry(u, sharesStore[u][i], SharedKeyHandler(u, sharesStore[u][i].id, js))

\* time passes; the server reads the clock only to set and test the expiry of
\* share entries, so the clock is run once an entry that expires exists
Tick ==
    /\ now < TickMs * (1 + MaxTicks)
    /\ \E u \in Users : \E i \in 1..Len(sharesStore[u]) : sharesStore[u][i].expiresAt > 0
    /\ now' = now + TickMs
    /\ UNCHANGED <<storeVars, nextId, resp, release, clientVars>>

-----------------------------------------------------------------------------
(* The API server: group routes *)

\* groupsStore.get(id): the position of the group, 0 for undefined
GroupIdx(id) == FindFirst(groupsStore, LAMBDA g : g.id = id)

HasMember(group, Pred(_)) ==
    \E m \in 1..Len(group.members) : Pred(group.members[m])

GroupUnchanged ==
    /\ download' = NoDownload
    /\ UNCHANGED <<filesStore, sharesStore, now, session, uploadKey>>

\* POST /api/groups
CreateGroup(u) ==
    /\ Budget
    /\ LET group == [id |-> nextId, creator |-> u,
                     members |-> <<[address |-> u, role |-> "admin",
                                    status |-> "active"]>>]
       IN  /\ groupsStore' = Append(groupsStore, group)
           /\ auditLog' = addAudit(auditLog, "GROUP_CREATED", u, 0, group.id)
           /\ resp' = Response("createGroup", u, 200, group)
    /\ nextId' = nextId + 1
    /\ release' = NoRelease
    /\ GroupUnchanged

\* POST /api/groups/:id/invite
InviteMember(u, id, memberAddress, role) ==
    /\ LET g == GroupIdx(id)
           group == groupsStore[g]
       IN  IF g = 0
           THEN /\ resp' = Response("invite", u, 404, Error("Group not found"))
                /\ UNCHANGED <<groupsStore, auditLog>>
           ELSE IF ~HasMember(group, LAMBDA m : m.address = u /\ m.role = "admin")
           THEN /\ resp' = Response("invite", u, 403, Error("Only admins can invite"))
                /\ UNCHANGED <<groupsStore, auditLog>>
           ELSE IF HasMember(group, LAMBDA m : m.address = memberAddress)
           THEN /\ resp' = Response("invite", u, 400, Error("User already in group"))
                /\ UNCHANGED <<groupsStore, auditLog>>
           ELSE /\ Len(auditLog) < MaxAudit
                /\ groupsStore' =
                       [groupsStore EXCEPT ![g].members =
                           Append(@, [address |-> memberAddress, role |-> role,
                                      status |-> "invited"])]
                /\ auditLog' = addAudit(auditLog, "MEMBER_INVITED", u, 0, memberAddress)
                /\ resp' = Response("invite", u, 200, [success |-> TRUE])
    /\ release' = NoRelease
    /\ UNCHANGED nextId
    /\ GroupUnchanged

\* POST /api/groups/:id/accept
AcceptInvite(u, id) ==
    /\ LET g == GroupIdx(id)
           m == FindFirst(groupsStore[g].members, LAMBDA x : x.address = u)
       IN  IF g = 0
           THEN /\ resp' = Response("accept", u, 404, Error("Group not found"))
                /\ UNCHANGED groupsStore
           ELSE IF m = 0
           THEN /\ resp' = Response("accept", u, 404, Error("Not a member"))
                /\ UNCHANGED groupsStore
           ELSE /\ groupsStore' = [groupsStore EXCEPT ![g].members[m].status = "active"]
                /\ resp' = Response("accept", u, 200, [success |-> TRUE])
    /\ release' = NoRelease
    /\ UNCHANGED <<auditLog, nextId>>
    /\ GroupUnchanged

\* DELETE /api/groups/:id/members/:memberAddress
RemoveMember(u, id, memberAddress) ==
    /\ LET g == GroupIdx(id)
           group == groupsStore[g]
       IN  IF g = 0
           THEN /\ resp' = Response("remove", u, 404, Error("Group not found"))
                /\ UNCHANGED <<groupsStore, auditLog>>
           ELSE IF ~HasMember(group, LAMBDA m : m.address = u /\ m.role = "admin")
           THEN /\ resp' = Response("remove", u, 403,
                                    Error("Only admins can remove members"))
                /\ UNCHANGED <<groupsStore, auditLog>>
           ELSE /\ Len(auditLog) < MaxAudit
                /\ groupsStore' =
                       [groupsStore EXCEPT ![g].members =
                           SelectSeq(@, LAMBDA m : m.address # memberAddress)]
                /\ auditLog' = addAudit(auditLog, "MEMBER_REMOVED", u, 0, memberAddress)
                /\ resp' = Response("remove", u, 200, [success |-> TRUE])
    /\ release' = NoRelease
    /\ UNCHANGED nextId
    /\ GroupUnchanged

\* every stored file, over all owners (uuids are unique, so at most one matches)
AllFiles == UNION {{filesStore[o][i] : i \in 1..Len(filesStore[o])} : o \in Users}

\* GET /api/groups/:id/files/:fileId/key: the response and the handler's locals
GroupKeyHandler(u, id, fileId, js) ==
    LET g == GroupIdx(id)
        found == {f \in AllFiles : f.id = fileId /\ f.groupId = id}
        targetFile == CHOOSE f \in found : TRUE
        q == SelectQuorum(targetFile.shares, js)
    IN  IF g = 0
        THEN [resp |-> Response("groupKey", u, 404, Error("Group not found")),
              release |-> NoRelease]
        ELSE IF ~HasMember(groupsStore[g],
                           LAMBDA m : m.address = u /\ m.status \in {"active", "joined"})
        THEN [resp |-> Response("groupKey", u, 403, Error("Not a member of this group")),
              release |-> NoRelease]
        ELSE IF found = {}
        THEN [resp |-> Response("groupKey", u, 404, Error("File not found in group")),
              release |-> NoRelease]
        ELSE [resp |-> Response("groupKey", u, 200,
                                KeyBody(targetFile.encryptionKey, q)),
              release |-> ReleaseLocals(q)]

GroupSharesOnFile(id, fileId) ==
    LET found == {f \in AllFiles : f.id = fileId /\ f.groupId = id}
    IN  IF found = {} THEN <<>> ELSE (CHOOSE f \in found : TRUE).shares

GetGroupKey(u, id, fileId, js) ==
    /\ LET r == GroupKeyHandler(u, id, fileId, js)
       IN  resp' = r.resp /\ release' = r.release
    /\ download' = NoDownload
    /\ UNCHANGED <<storeVars, nextId, now, session, uploadKey>>

-----------------------------------------------------------------------------
(* The server and its clients *)

\* the ids a request may name: every uuid handed out, and one that was not
Ids == 1..nextId

\* the group ids an upload may carry: none, or a group's (the route checks
\* neither that the group exists nor that the uploader is a member)
GroupIds == {NoGroup} \cup {groupsStore[g].id : g \in 1..Len(groupsStore)}

\* what a client other than the two upload pages may post: a key and
\* unparsable shares, 2 shares and no key, 3 shares and no key
LegacyBodies ==
    LET shares == splitSecret(<<83>>, 3, 2, <<<<202>>>>).value
        hexes == [i \in 1..3 |-> shareToHex(shares[i])]
        keyHex == keyToHex(<<83>>)
    IN  {[encryptionKey |-> keyHex, shares |-> BadJson],
         [encryptionKey |-> NullKey, shares |-> JSONstringify(SubSeq(hexes, 1, 2))],
         [encryptionKey |-> NullKey, shares |-> JSONstringify(hexes)]}

Next ==
    \/ \E u \in Users, keyBytes \in Keys, rnd \in RandomDraws(1, 3, 2) :
       \E groupId \in ({NoGroup} \cup GroupsOf(u)) :
          ClientUpload(u, keyBytes, rnd, groupId) /\ UNCHANGED libVars
    \/ \E u \in Users, body \in LegacyBodies, groupId \in GroupIds :
          ApiUpload(u, body.encryptionKey, body.shares, groupId) /\ UNCHANGED libVars
    \/ \E u \in Users, id \in Ids : GetOwnerKey(u, id) /\ UNCHANGED libVars
    \/ \E u \in Users, id \in Ids : DeleteFile(u, id) /\ UNCHANGED libVars
    \/ \E u \in Users, id \in Ids, recipient \in Users, expiresIn \in {0, 1} :
          ShareFile(u, id, recipient, expiresIn) /\ UNCHANGED libVars
    \/ \E u \in Users : ListShared(u) /\ UNCHANGED libVars
    \/ \E u \in Users, id \in Ids : \E js \in RandomJs(SharesOnFile(u, id)) :
          GetSharedKey(u, id, js) /\ UNCHANGED libVars
    \/ \E u \in Users : \E i \in 1..Len(sharesStore[u]) :
       \E js \in RandomJs(sharesStore[u][i].shares) :
          handleDownload(u, i, js) /\ UNCHANGED libVars
    \/ \E u \in Users : CreateGroup(u) /\ UNCHANGED libVars
    \/ \E u \in Users, id \in Ids, member \in Users, role \in {"member", "admin"} :
          InviteMember(u, id, member, role) /\ UNCHANGED libVars
    \/ \E u \in Users, id \in Ids : AcceptInvite(u, id) /\ UNCHANGED libVars
    \/ \E u \in Users, id \in Ids, member \in Users :
          RemoveMember(u, id, member) /\ UNCHANGED libVars
    \/ \E u \in Users, id \in Ids, fileId \in Ids :
       \E js \in RandomJs(GroupSharesOnFile(id, fileId)) :
          GetGroupKey(u, id, fileId, js) /\ UNCHANGED libVars
    \/ Tick /\ UNCHANGED libVars

-----------------------------------------------------------------------------
(* The library driven on bounded inputs *)

\* the sequences over S of length lo..hi
SeqsOf(S, lo, hi) == UNION {[1..l -> S] : l \in lo..hi}

Secrets == SeqsOf(SecretBytes, 0, MaxLen)

\* (n, k) pairs: every pair of small numbers, valid or not, and the edge of
\* the 255-share limit
NKInputs == ((0..MaxN) \X (0..(MaxN + 1))) \cup {<<255, 2>>, <<256, 2>>, <<256, 256>>}

\* share positions (1-based) that reconstruction is tried on
PickIdx(n) == IF n <= MaxN THEN 1..n ELSE {1, 2, n}

\* every ordered selection of distinct positions, of every size
Picks(n) ==
    {p \in SeqsOf(PickIdx(n), 0, Cardinality(PickIdx(n))) :
        \A a, b \in 1..Len(p) : a # b => p[a] # p[b]}

\* hand-made shares: any x-coordinate (0 and repeats included), any data
ArbShares == {<<x>> \o d : x \in 0..MaxX, d \in SeqsOf(SecretBytes, 0, 1)}
ArbShareSeqs ==
    {in \in SeqsOf(ArbShares, 0, MaxArb) :
        \A a, b \in 1..Len(in) : Len(in[a]) = Len(in[b])}

ShamirOff ==
    /\ sSecret = <<>> /\ sN = 0 /\ sK = 0 /\ sRnd = <<>>
    /\ sShares = None /\ rInput = <<>> /\ rResult = None /\ sPc = "off"

ShamirInit ==
    \/ /\ sSecret \in Secrets
       /\ \E nk \in NKInputs : sN = nk[1] /\ sK = nk[2]
       /\ sRnd = <<>> /\ sShares = None /\ rInput = <<>> /\ rResult = None
       /\ sPc = "start"
    \/ /\ rInput \in ArbShareSeqs
       /\ sSecret = <<>> /\ sN = 0 /\ sK = 0 /\ sRnd = <<>>
       /\ sShares = None /\ rResult = None
       /\ sPc = "selected"

\* a caller runs splitSecret(secret, n, k)
Split ==
    /\ sPc = "start"
    /\ \E rnd \in RandomDraws(Len(sSecret), sN, sK) :
          /\ sRnd' = rnd
          /\ sShares' = splitSecret(sSecret, sN, sK, rnd)
    /\ sPc' = "split"
    /\ UNCHANGED <<sSecret, sN, sK, rInput, rResult>>

\* a caller selects some of the shares, in some order
Select ==
    /\ sPc = "split" /\ sShares.ok
    /\ \E p \in Picks(sN) : rInput' = [a \in 1..Len(p) |-> sShares.value[p[a]]]
    /\ sPc' = "selected"
    /\ UNCHANGED <<sSecret, sN, sK, sRnd, sShares, rResult>>

\* a caller runs reconstructSecret on the selected shares
Reconstruct ==
    /\ sPc = "selected"
    /\ rResult' = reconstructSecret(rInput)
    /\ sPc' = "done"
    /\ UNCHANGED <<sSecret, sN, sK, sRnd, sShares, rInput>>

ShamirNext ==
    \/ Split /\ UNCHANGED <<hexVars, nodeVars, aesVars, serverVars, clientVars, chainVars, groupVars, authVars, fieldVars>>
    \/ Select /\ UNCHANGED <<hexVars, nodeVars, aesVars, serverVars, clientVars, chainVars, groupVars, authVars, fieldVars>>
    \/ Reconstruct /\ UNCHANGED <<hexVars, nodeVars, aesVars, serverVars, clientVars, chainVars, groupVars, authVars, fieldVars>>

\* the bytes the encoding is tried on: every single byte, and the short
\* sequences over bytes on both sides of the one-digit and letter-digit edges
HexBytes == {0, 9, 10, 15, 16, 83, 160, 255}
HexInputs == SeqsOf(HexBytes, 0, MaxHexLen) \cup {<<b>> : b \in 0..255}

HexOff == hShare = <<>> /\ hHex = <<>> /\ hBack = <<>> /\ hPc = "off"

HexInit == hShare \in HexInputs /\ hHex = <<>> /\ hBack = <<>> /\ hPc = "start"

\* a caller runs shareToHex(share)
Encode ==
    /\ hPc = "start"
    /\ hHex' = shareToHex(hShare)
    /\ hPc' = "encoded"
    /\ UNCHANGED <<hShare, hBack>>

\* a caller runs hexToShare on the string
Decode ==
    /\ hPc = "encoded"
    /\ hBack' = hexToShare(hHex)
    /\ hPc' = "decoded"
    /\ UNCHANGED <<hShare, hHex>>

HexNext ==
    \/ Encode /\ UNCHANGED <<shamirVars, nodeVars, aesVars, serverVars, clientVars, chainVars, groupVars, authVars, fieldVars>>
    \/ Decode /\ UNCHANGED <<shamirVars, nodeVars, aesVars, serverVars, clientVars, chainVars, groupVars, authVars, fieldVars>>


-----------------------------------------------------------------------------
(* NaCl box (tweetnacl) and its encodings, symbolically.                   *)
(*                                                                         *)
(* Every value is a record with a kind: a secret key "sk" and the public   *)
(* key "pk" of the same id, a nonce, the bytes of a share, a box, and the  *)
(* texts that carry them over HTTP.  A box records the key it was sealed   *)
(* under; opening it succeeds only with that key and nonce, on a box that  *)
(* was not altered.                                                        *)

\* nacl.box.publicKeyLength, secretKeyLength; nonceLength; overheadLength
KeyLength == 32
NonceLength == 24
OverheadLength == 16

NaclNull == [kind |-> "null"]
Undefined == [kind |-> "undefined"]
EmptyBytes == [kind |-> "bytes", of |-> <<>>]

SecretKey(i) == [kind |-> "sk", id |-> i]
Nonce(i) == [kind |-> "nonce", id |-> i]
Bytes(s) == [kind |-> "bytes", of |-> s]

\* the public key of a secret key: scalar multiplication of the base point
PublicOf(sk) == [kind |-> "pk", id |-> sk.id]

\* nacl.box.keyPair.fromSecretKey, nacl.box.keyPair
keyPairFromSecretKey(sk) == [publicKey |-> PublicOf(sk), secretKey |-> sk]

\* the length of a Uint8Array
RECURSIVE ByteLength(_)
ByteLength(v) ==
    CASE v.kind \in {"sk", "pk"} -> KeyLength
      [] v.kind = "nonce" -> NonceLength
      [] v.kind = "bytes" -> Len(v.of)
      [] v.kind = "box" -> OverheadLength + ByteLength(v.msg)
      [] OTHER -> 0

\* nacl.box.before: the key both ends agree on.  With two real key pairs it
\* is the same from either end; when the bytes passed as the public key are
\* not the public key of a pair, only the caller's end can compute it
before(publicKey, secretKey) ==
    IF publicKey.kind = "pk"
    THEN [kind |-> "dh",
          a |-> IF publicKey.id < secretKey.id THEN publicKey.id ELSE secretKey.id,
          b |-> IF publicKey.id < secretKey.id THEN secretKey.id ELSE publicKey.id]
    ELSE [kind |-> "point", a |-> secretKey.id, b |-> publicKey]

\* checkBoxLengths / checkLengths: the sizes nacl.box and nacl.box.open insist on
BadSize(nonce, publicKey, secretKey) ==
    \/ ByteLength(publicKey) # KeyLength
    \/ ByteLength(secretKey) # KeyLength
    \/ ByteLength(nonce) # NonceLength

\* nacl.box(msg, nonce, publicKey, secretKey)
box(msg, nonce, publicKey, secretKey) ==
    IF BadSize(nonce, publicKey, secretKey)
    THEN [ok |-> FALSE, error |-> "bad size"]
    ELSE [ok |-> TRUE,
          value |-> [kind |-> "box", key |-> before(publicKey, secretKey),
                     nonce |-> nonce, msg |-> msg, intact |-> TRUE]]

\* nacl.box.open(box, nonce, publicKey, secretKey): null when the
\* authenticator does not verify
boxOpen(sealed, nonce, publicKey, secretKey) ==
    IF BadSize(nonce, publicKey, secretKey)
    THEN [ok |-> FALSE, error |-> "bad size"]
    ELSE IF /\ sealed.kind = "box"
            /\ sealed.intact
            /\ sealed.nonce = nonce
            /\ sealed.key = before(publicKey, secretKey)
    THEN [ok |-> TRUE, value |-> sealed.msg]
    ELSE [ok |-> TRUE, value |-> NaclNull]

\* one bit of a box changed on the way
Tamper(sealed) == [sealed EXCEPT !.intact = FALSE]

\* naclUtil.encodeBase64 and decodeBase64: a text that decodes to the bytes
\* it was made from; the empty string decodes to no bytes, and any other
\* text is not Base64
encodeBase64(v) == [kind |-> "b64", of |-> v]

decodeBase64(text) ==
    IF text.kind = "b64" THEN [ok |-> TRUE, value |-> text.of]
    ELSE IF text.kind = "empty" THEN [ok |-> TRUE, value |-> EmptyBytes]
    ELSE [ok |-> FALSE, error |-> "invalid encoding"]

EmptyString == [kind |-> "empty"]
Text(s) == [kind |-> "text", of |-> s]

\* what JavaScript takes for false in a condition
Falsy(v) == v.kind \in {"undefined", "null", "empty"}

\* the texts an operator may put in NODE_<X>_PRIVATE_KEY
SeedTexts == << <<"0", "x", "a">>, <<"0", "x", "b">>, <<"a">> >>

\* crypto.createHash('sha256').update(s).digest(), used as the secret key:
\* the same key for the same text, a different key for every other text
sha256(seed) == SecretKey(CHOOSE i \in 1..Len(SeedTexts) : SeedTexts[i] = seed.of)

\* String.prototype.startsWith('0x')
startsWith0x(seed) == Len(seed.of) >= 2 /\ seed.of[1] = "0" /\ seed.of[2] = "x"
-----------------------------------------------------------------------------
(* lib/x25519: the browser's box helpers *)

\* encryptForRecipient: nonce is what nacl.randomBytes produced
encryptForRecipient(data, recipientPublicKeyBase64, senderSecretKeyBase64, nonce) ==
    IF \/ ~decodeBase64(recipientPublicKeyBase64).ok
       \/ ~decodeBase64(senderSecretKeyBase64).ok
    THEN [ok |-> FALSE, error |-> "invalid encoding"]
    ELSE IF ~box(data, nonce, decodeBase64(recipientPublicKeyBase64).value,
                 decodeBase64(senderSecretKeyBase64).value).ok
    THEN [ok |-> FALSE, error |-> "bad size"]
    ELSE [ok |-> TRUE,
          value |-> [kind |-> "object",
                     nonce |-> encodeBase64(nonce),
                     encrypted |-> encodeBase64(
                         box(data, nonce, decodeBase64(recipientPublicKeyBase64).value,
                             decodeBase64(senderSecretKeyBase64).value).value)]]

\* the part of decryptFromSender after the four decodeBase64 calls
OpenOrThrow(opened) ==
    IF ~opened.ok THEN opened
    ELSE IF Falsy(opened.value) THEN [ok |-> FALSE, error |-> "Decryption failed"]
    ELSE opened

decryptFromSender(encryptedBase64, nonceBase64, senderPublicKeyBase64, recipientSecretKeyBase64) ==
    IF \/ ~decodeBase64(encryptedBase64).ok
       \/ ~decodeBase64(nonceBase64).ok
       \/ ~decodeBase64(senderPublicKeyBase64).ok
       \/ ~decodeBase64(recipientSecretKeyBase64).ok
    THEN [ok |-> FALSE, error |-> "invalid encoding"]
    ELSE OpenOrThrow(boxOpen(decodeBase64(encryptedBase64).value,
                             decodeBase64(nonceBase64).value,
                             decodeBase64(senderPublicKeyBase64).value,
                             decodeBase64(recipientSecretKeyBase64).value))

-----------------------------------------------------------------------------
(* The API server: the Trustless Trio node keys and routes *)

\* ['alpha', 'beta', 'gamma'], by JavaScript index + 1
NodeIds == <<"alpha", "beta", "gamma">>
Nodes == {NodeIds[i] : i \in 1..Len(NodeIds)}

\* a request body without shareIndex
NoIndex == -1

\* loadOrGenerateNodeKeys for one node: privEnv is process.env's entry and
\* fresh the secret key nacl.box.keyPair() would draw
NodeKeyPair(privEnv, fresh) ==
    IF ~Falsy(privEnv) /\ startsWith0x(privEnv)
    THEN [publicKey |-> encodeBase64(keyPairFromSecretKey(sha256(privEnv)).publicKey),
          secretKey |-> keyPairFromSecretKey(sha256(privEnv)).secretKey]
    ELSE [publicKey |-> encodeBase64(keyPairFromSecretKey(fresh).publicKey),
          secretKey |-> keyPairFromSecretKey(fresh).secretKey]

loadOrGenerateNodeKeys(env, fresh) ==
    [n \in Nodes |-> NodeKeyPair(env[n], fresh[n])]

\* the console.log lines written after the keys are loaded
StartupLog_WithSecret(keys) ==
    {[line |-> "publicKey", nodeId |-> n, value |-> keys[n].publicKey] : n \in Nodes}
        \cup {[line |-> "secretKey", nodeId |-> n,
               value |-> encodeBase64(keys[n].secretKey)] : n \in Nodes}

StartupLog(keys) ==
    {[line |-> "publicKey", nodeId |-> n, value |-> keys[n].publicKey] : n \in Nodes}

\* GET /api/nodes
NodesBody(keys) ==
    [kind |-> "nodes",
     nodes |-> [i \in 1..Len(NodeIds) |->
                   [id |-> NodeIds[i], publicKey |-> keys[NodeIds[i]].publicKey]]]

\* ['alpha', 'beta', 'gamma'][shareIndex] || 'alpha'
NodeOfIndex_AlwaysAlpha(shareIndex) == "alpha"

NodeOfIndex(shareIndex) ==
    IF shareIndex \in 0..(Len(NodeIds) - 1) THEN NodeIds[shareIndex + 1] ELSE "alpha"

\* encryptedShare.encrypted || encryptedShare, encryptedShare.nonce || ''
EncryptedField(encryptedShare) ==
    IF encryptedShare.kind = "object" /\ ~Falsy(encryptedShare.encrypted)
    THEN encryptedShare.encrypted ELSE encryptedShare

NonceField(encryptedShare) ==
    IF encryptedShare.kind = "object" /\ ~Falsy(encryptedShare.nonce)
    THEN encryptedShare.nonce ELSE EmptyString

\* the try block of step 1: any throw is caught and leaves null
TryOpen(encrypted, nonce, senderPk, secretKey) ==
    IF ~encrypted.ok \/ ~nonce.ok \/ ~senderPk.ok THEN NaclNull
    ELSE IF ~boxOpen(encrypted.value, nonce.value, senderPk.value, secretKey).ok
    THEN NaclNull
    ELSE boxOpen(encrypted.value, nonce.value, senderPk.value, secretKey).value

\* step 1 of POST /api/nodes/reencrypt: decryptedShare
DecryptStep(node, encryptedShare, senderPublicKey) ==
    IF Falsy(encryptedShare) \/ Falsy(senderPublicKey) THEN Undefined
    ELSE TryOpen(decodeBase64(EncryptedField(encryptedShare)),
                 decodeBase64(NonceField(encryptedShare)),
                 decodeBase64(senderPublicKey), node.secretKey)

Placeholder == Text("placeholder_reencrypted_data")

\* step 2 with a share to seal: nonce is what nacl.randomBytes produced
SealStep(node, nodeId, decryptedShare, recipientPk, nonce) ==
    IF ~recipientPk.ok \/ ~box(decryptedShare, nonce, recipientPk.value, node.secretKey).ok
    THEN [status |-> 500, body |-> [kind |-> "error", error |-> "thrown"]]
    ELSE [status |-> 200,
          body |-> [kind |-> "reencrypted", success |-> TRUE,
                    reEncryptedShare |->
                        [kind |-> "object",
                         nonce |-> encodeBase64(nonce),
                         encrypted |-> encodeBase64(
                             box(decryptedShare, nonce, recipientPk.value,
                                 node.secretKey).value)],
                    nodeId |-> nodeId, nodePublicKey |-> node.publicKey]]

\* step 2 of POST /api/nodes/reencrypt
ReencryptStep(node, nodeId, decryptedShare, recipientPublicKey, nonce) ==
    IF ~Falsy(decryptedShare) /\ ~Falsy(recipientPublicKey)
    THEN SealStep(node, nodeId, decryptedShare, decodeBase64(recipientPublicKey), nonce)
    ELSE [status |-> 200,
          body |-> [kind |-> "reencrypted", success |-> TRUE,
                    reEncryptedShare |-> Placeholder,
                    nodeId |-> nodeId, nodePublicKey |-> node.publicKey]]

\* POST /api/nodes/reencrypt: the response for a request body
ReencryptHandler(keys, body, nonce) ==
    ReencryptStep(keys[NodeOfIndex(body.shareIndex)], NodeOfIndex(body.shareIndex),
                  DecryptStep(keys[NodeOfIndex(body.shareIndex)],
                              body.encryptedShare, body.senderPublicKey),
                  body.recipientPublicKey, nonce)

\* shareHex.match(/.{1,2}/g).map(h => parseInt(h, 16)): the pieces of two
\* characters, and a last piece of one when the length is odd
MatchPairs(hex) ==
    [i \in 1..((Len(hex) + 1) \div 2) |->
        parseInt16(SubSeq(hex, 2 * i - 1, IF 2 * i <= Len(hex) THEN 2 * i ELSE Len(hex)))]

\* one element of the shares.map of POST /api/encrypt-shares, for a node
\* that exists: nonce and ephemeral are what nacl drew for this element
EncryptOne(keys, i, shareHex, senderPublicKey, nonce, ephemeral) ==
    IF ~Falsy(senderPublicKey)
    THEN [nodeId |-> NodeIds[i],
          encryptedShare |->
              [kind |-> "object",
               nonce |-> encodeBase64(nonce),
               encrypted |-> encodeBase64(
                   box(Bytes(MatchPairs(shareHex.of)), nonce,
                       keys[NodeIds[i]].secretKey, ephemeral).value),
               ephemeralPublicKey |-> encodeBase64(PublicOf(ephemeral))]]
    ELSE [nodeId |-> NodeIds[i], encryptedShare |-> shareHex]

\* the element for an index past the last node
NodeNotFound(shareHex) ==
    [nodeId |-> "undefined", encryptedShare |-> shareHex, error |-> "Node not found"]

\* POST /api/encrypt-shares: shares is the array of the body, or Undefined
EncryptSharesHandler(keys, shares, senderPublicKey, nonces, ephemerals) ==
    IF Falsy(shares)
    THEN [status |-> 400, body |-> [kind |-> "error", error |-> "Shares array is required"]]
    ELSE IF \E i \in 1..Len(shares.of) : i <= Len(NodeIds) /\ Len(shares.of[i].of) = 0
    THEN [status |-> 500, body |-> [kind |-> "error", error |-> "thrown"]]
    ELSE [status |-> 200,
          body |-> [kind |-> "encrypted", success |-> TRUE,
                    encryptedShares |->
                        [i \in 1..Len(shares.of) |->
                            IF i > Len(NodeIds) THEN NodeNotFound(shares.of[i])
                            ELSE EncryptOne(keys, i, shares.of[i], senderPublicKey,
                                            nonces[i], ephemerals[i])]]]
-----------------------------------------------------------------------------
(* The node keys and routes as a state machine *)

\* most process starts
MaxStarts == 2
\* the keys nacl.box.keyPair() may draw for one node, and the nonces
\* nacl.randomBytes may draw
MaxFresh == 2
MaxNonces == 2
\* longest shares array sent to POST /api/encrypt-shares
MaxSharesIn == 2

NodeIndex(n) == CHOOSE i \in 1..Len(NodeIds) : NodeIds[i] = n

\* secret keys by who drew them: 1.. are digests of seeds, 10 i + d the
\* d-th key node i may draw, 41..43 the browsers', 50 + d the d-th ephemeral
FreshDraws ==
    {[n \in Nodes |-> SecretKey(10 * NodeIndex(n) + d[n])] : d \in [Nodes -> 1..MaxFresh]}
NonceDraws == {Nonce(i) : i \in 1..MaxNonces}
EphemeralDraws == {SecretKey(50 + d) : d \in 1..MaxFresh}

\* generateX25519KeyPair, with the key nacl.box.keyPair() drew
generateX25519KeyPair(drawn) ==
    [publicKey |-> encodeBase64(PublicOf(drawn)), secretKey |-> encodeBase64(drawn)]

SenderKeys == generateX25519KeyPair(SecretKey(41))
RecipientKeys == generateX25519KeyPair(SecretKey(42))
OtherKeys == generateX25519KeyPair(SecretKey(43))

\* what process.env may hold for a node
SeedChoices == {Undefined} \cup {Text(SeedTexts[i]) : i \in 1..Len(SeedTexts)}
Envs == [Nodes -> SeedChoices]

\* the environments of the processes whose routes are exercised
ServedEnvs ==
    {[n \in Nodes |-> Text(SeedTexts[1])],
     [alpha |-> Text(SeedTexts[1]), beta |-> Text(SeedTexts[2]), gamma |-> Undefined]}

\* the shares of the requests, as hex texts
ShareHexes == {<<"0", "1", "5", "3">>, <<"0", "2", "a">>}
HexText(h) == [kind |-> "hex", of |-> h]
Array(s) == [kind |-> "array", of |-> s]

NoRequest == [route |-> "none"]
NoResponse == [route |-> "none", status |-> 0, body |-> [kind |-> "none"]]
NoHeld == [kind |-> "none"]
NoOpen == [ok |-> FALSE, error |-> "not run"]
NoPrev == [n \in Nodes |-> Undefined]

NodeOff ==
    /\ nEnv = [n \in Nodes |-> Undefined]
    /\ nodeKeys = [n \in Nodes |-> Undefined]
    /\ nPrev = NoPrev
    /\ nStarts = 0
    /\ nLog = {}
    /\ nHeld = NoHeld
    /\ nReq = NoRequest
    /\ nResp = NoResponse
    /\ nLocals = Undefined
    /\ nOpened = NoOpen

\* the process after its module has run: the keys are loaded and logged
NodeStarted(envs) ==
    /\ nEnv \in envs
    /\ nodeKeys \in {loadOrGenerateNodeKeys(nEnv, fresh) : fresh \in FreshDraws}
    /\ nPrev = NoPrev
    /\ nStarts = 1
    /\ nLog = StartupLog(nodeKeys)
    /\ nHeld = NoHeld
    /\ nReq = NoRequest
    /\ nResp = NoResponse
    /\ nLocals = Undefined
    /\ nOpened = NoOpen

\* the process is started again with the same environment
Restart(fresh) ==
    /\ nStarts < MaxStarts
    /\ nStarts' = nStarts + 1
    /\ nPrev' = [n \in Nodes |-> nodeKeys[n].publicKey]
    /\ nodeKeys' = loadOrGenerateNodeKeys(nEnv, fresh)
    /\ nLog' = StartupLog(nodeKeys')
    /\ nReq' = NoRequest
    /\ nResp' = NoResponse
    /\ nLocals' = Undefined
    /\ nOpened' = NoOpen
    /\ UNCHANGED <<nEnv, nHeld>>

\* GET /api/nodes
GetNodes ==
    /\ nReq' = [route |-> "nodes"]
    /\ nResp' = [route |-> "nodes", status |-> 200, body |-> NodesBody(nodeKeys)]
    /\ nLocals' = Undefined
    /\ nOpened' = NoOpen
    /\ UNCHANGED <<nEnv, nodeKeys, nPrev, nStarts, nLog, nHeld>>

\* a browser seals a share to the node of JavaScript index i with
\* encryptForRecipient, under the public key the node publishes
Seal(i, hex, nonce) ==
    /\ encryptForRecipient(Bytes(hexToShare(hex)), nodeKeys[NodeIds[i + 1]].publicKey,
                           SenderKeys.secretKey, nonce).ok
    /\ nHeld' = [kind |-> "held",
                 data |-> Bytes(hexToShare(hex)),
                 index |-> i,
                 nodePublicKey |-> nodeKeys[NodeIds[i + 1]].publicKey,
                 senderPublicKey |-> SenderKeys.publicKey,
                 item |-> encryptForRecipient(Bytes(hexToShare(hex)),
                                              nodeKeys[NodeIds[i + 1]].publicKey,
                                              SenderKeys.secretKey, nonce).value]
    /\ nReq' = NoRequest
    /\ nResp' = NoResponse
    /\ nLocals' = Undefined
    /\ nOpened' = NoOpen
    /\ UNCHANGED <<nEnv, nodeKeys, nPrev, nStarts, nLog>>

\* console.error of a handler's catch block
ErrorLog(r) ==
    IF r.status = 500 THEN {[line |-> "error", nodeId |-> "none", value |-> Text(r.body.error)]}
    ELSE {}

\* the state after a node route answered r
NodeAnswered(route, body, r, decryptedShare) ==
    /\ nReq' = [route |-> route, body |-> body]
    /\ nResp' = [route |-> route, status |-> r.status, body |-> r.body]
    /\ nLog' = nLog \cup ErrorLog(r)
    /\ nLocals' = decryptedShare
    /\ nOpened' = NoOpen
    /\ UNCHANGED <<nEnv, nodeKeys, nPrev, nStarts, nHeld>>

\* POST /api/nodes/reencrypt
Reencrypt(body, nonce) ==
    NodeAnswered("reencrypt", body, ReencryptHandler(nodeKeys, body, nonce),
                 DecryptStep(nodeKeys[NodeOfIndex(body.shareIndex)],
                             body.encryptedShare, body.senderPublicKey))

\* POST /api/encrypt-shares
EncryptShares(shares, senderPublicKey, nonces, ephemerals) ==
    NodeAnswered("encrypt-shares",
                 [shares |-> shares, senderPublicKey |-> senderPublicKey],
                 EncryptSharesHandler(nodeKeys, shares, senderPublicKey, nonces, ephemerals),
                 Undefined)

\* a field of the reEncryptedShare of a response: undefined on a string
FieldOf(v, name) ==
    IF v.kind = "object" THEN v[name] ELSE Undefined

\* the recipient opens the reEncryptedShare of the response with
\* decryptFromSender, the node's published key and its own secret key
RecipientOpen ==
    /\ nResp.route = "reencrypt"
    /\ nResp.status = 200
    /\ nOpened' = decryptFromSender(FieldOf(nResp.body.reEncryptedShare, "encrypted"),
                                    FieldOf(nResp.body.reEncryptedShare, "nonce"),
                                    nResp.body.nodePublicKey,
                                    RecipientKeys.secretKey)
    /\ UNCHANGED <<nEnv, nodeKeys, nPrev, nStarts, nLog, nHeld, nReq, nResp, nLocals>>

\* the request a recipient sends for the share it holds
WellFormed(held) ==
    [recipientPublicKey |-> RecipientKeys.publicKey,
     shareIndex |-> held.index,
     encryptedShare |-> held.item,
     senderPublicKey |-> held.senderPublicKey]

\* the held EncryptedShare with one bit of its ciphertext changed
TamperItem(item) ==
    [item EXCEPT !.encrypted = encodeBase64(Tamper(item.encrypted.of))]

\* the request bodies sent to POST /api/nodes/reencrypt: the well-formed
\* one under every shareIndex, and that one with a field missing or wrong
ReencryptBodies(held) ==
    {[WellFormed(held) EXCEPT !.shareIndex = x] : x \in {NoIndex} \cup 0..Len(NodeIds)}
    \cup {[WellFormed(held) EXCEPT !.encryptedShare = e] :
            e \in {Undefined, TamperItem(held.item), held.item.encrypted}}
    \cup {[WellFormed(held) EXCEPT !.senderPublicKey = p] :
            p \in {Undefined, OtherKeys.publicKey, Text("junk")}}
    \cup {[WellFormed(held) EXCEPT !.recipientPublicKey = p] :
            p \in {Undefined, Text("junk"), encodeBase64(Nonce(1))}}

EmptyBody ==
    [recipientPublicKey |-> Undefined, shareIndex |-> NoIndex,
     encryptedShare |-> Undefined, senderPublicKey |-> Undefined]

\* the shares arrays sent to POST /api/encrypt-shares
SharesInputs ==
    {Undefined, Array(<<HexText(<<>>)>>)}
    \cup {Array(s) : s \in SeqsOf({HexText(h) : h \in ShareHexes}, 1, MaxSharesIn)}

ShareCount(shares) == IF Falsy(shares) THEN 0 ELSE Len(shares.of)

NodesNext ==
    /\ \/ GetNodes
       \/ \E i \in 0..(Len(NodeIds) - 1), hex \in ShareHexes, nonce \in NonceDraws :
              Seal(i, hex, nonce)
       \/ \E body \in (IF nHeld.kind = "held" THEN ReencryptBodies(nHeld) ELSE {EmptyBody}),
             nonce \in NonceDraws :
              Reencrypt(body, nonce)
       \/ \E shares \in SharesInputs, pk \in {Undefined, SenderKeys.publicKey} :
              \E nonces \in [1..ShareCount(shares) -> NonceDraws],
                 ephemerals \in [1..ShareCount(shares) -> EphemeralDraws] :
                  EncryptShares(shares, pk, nonces, ephemerals)
       \/ RecipientOpen
    /\ UNCHANGED <<shamirVars, hexVars, aesVars, serverVars, clientVars, chainVars, groupVars, authVars, fieldVars>>

IdentityNext ==
    /\ \/ \E fresh \in FreshDraws : Restart(fresh)
       \/ GetNodes
    /\ UNCHANGED <<shamirVars, hexVars, aesVars, serverVars, clientVars, chainVars, groupVars, authVars, fieldVars>>



-----------------------------------------------------------------------------
(* lib/aesEncryption: the payload cipher.                                  *)
(*                                                                         *)
(* A Uint8Array is a sequence of cells here: a cell is a byte, or one of   *)
(* the bytes of an AES-GCM authentication tag.  A tag cell records what    *)
(* the tag authenticates (key, IV and ciphertext); it verifies only        *)
(* against the same three, and not once a bit of it was changed.           *)

\* the IV length encryptAES draws and decryptAES assumes, and the length of
\* the tag AES-GCM appends
IvLength == 12
TagLength == 16

\* longest plaintext
MaxPlain == 2

ByteCell(b) == [kind |-> "byte", b |-> b]
TagCell(j, mac) == [kind |-> "tag", at |-> j, mac |-> mac, intact |-> TRUE]
Cells(bytes) == [i \in 1..Len(bytes) |-> ByteCell(bytes[i])]

RECURSIVE SumCells(_, _)
SumCells(cells, i) ==
    IF i > Len(cells) THEN 0 ELSE cells[i].b + SumCells(cells, i + 1)

\* the i-th byte of the key stream of AES in counter mode under a key and
\* an IV: some fixed function of the three
KeyStream(key, iv, i) == (key * 89 + SumCells(iv, 1) * 7 + i * 31 + 5) % 256

\* what the tag is computed from
Mac(key, iv, ct) == [key |-> key, iv |-> iv, ct |-> ct]

\* the ciphertext of counter mode
GcmCipher(key, iv, data) ==
    [i \in 1..Len(data) |-> ByteCell(Xor(data[i].b, KeyStream(key, iv, i)))]

GcmSealed(key, iv, ct) ==
    ct \o [j \in 1..TagLength |-> TagCell(j, Mac(key, iv, ct))]

\* crypto.subtle.encrypt({name: 'AES-GCM', iv}, key, data): ciphertext, then tag
subtleEncrypt(key, iv, data) == GcmSealed(key, iv, GcmCipher(key, iv, data))

\* the tag cells are those of the tag over this key, IV and ciphertext
TagVerifies(key, iv, ct, tag) ==
    \A j \in 1..TagLength :
        /\ tag[j].kind = "tag"
        /\ tag[j].at = j
        /\ tag[j].intact
        /\ tag[j].mac = Mac(key, iv, ct)

GcmOpen(key, iv, ct, tag) ==
    IF TagVerifies(key, iv, ct, tag)
    THEN [ok |-> TRUE,
          value |-> [i \in 1..Len(ct) |-> ByteCell(Xor(ct[i].b, KeyStream(key, iv, i)))]]
    ELSE [ok |-> FALSE, error |-> "OperationError"]

\* crypto.subtle.decrypt({name: 'AES-GCM', iv}, key, data): rejects when the
\* data is shorter than a tag or the tag does not verify
subtleDecrypt(key, iv, data) ==
    IF Len(data) < TagLength THEN [ok |-> FALSE, error |-> "OperationError"]
    ELSE GcmOpen(key, iv, SubSeq(data, 1, Len(data) - TagLength),
                 SubSeq(data, Len(data) - TagLength + 1, Len(data)))

\* Uint8Array.prototype.slice(from, to), to past the end included
Slice(data, from, to) ==
    SubSeq(data, from + 1, IF to < Len(data) THEN to ELSE Len(data))

\* encryptAES: iv is what crypto.getRandomValues produced
encryptAES(data, key, iv) == iv \o subtleEncrypt(key, iv, data)

\* decryptAES
decryptAES_Slice16(data, key) ==
    subtleDecrypt(key, Slice(data, 0, TagLength), Slice(data, TagLength, Len(data)))

decryptAES(data, key) ==
    subtleDecrypt(key, Slice(data, 0, IvLength), Slice(data, IvLength, Len(data)))

\* one bit of one cell changed: bit k of a byte, or any bit of a tag byte
FlipBit(data, i, k) ==
    [data EXCEPT ![i] =
        IF data[i].kind = "byte"
        THEN ByteCell(Xor(data[i].b, 2 ^ k))
        ELSE [data[i] EXCEPT !.intact = FALSE]]

\* the plaintexts, keys and IVs of the runs
PlainBytes == {0, 83, 255}
Plaintexts == {Cells(s) : s \in SeqsOf(PlainBytes, 0, MaxPlain)}
AesKeys == {1, 2}
Ivs == {Cells([i \in 1..IvLength |-> 0]), Cells([i \in 1..IvLength |-> 16 * i + 3])}

AesOff == aIn = <<>> /\ aBlob = <<>> /\ aOut = <<>> /\ aPc = "off"

AesInit ==
    /\ aIn \in [data : Plaintexts, key : AesKeys, iv : Ivs]
    /\ aBlob = <<>>
    /\ aOut = <<>>
    /\ aPc = "start"

\* encryptAES(data, key)
AesEncrypt ==
    /\ aPc = "start"
    /\ aBlob' = encryptAES(aIn.data, aIn.key, aIn.iv)
    /\ aPc' = "encrypted"
    /\ UNCHANGED <<aIn, aOut>>

\* the blob is altered in storage or in transit
AesTamper(i, k) ==
    /\ aPc = "encrypted"
    /\ i \in 1..Len(aBlob)
    /\ aBlob' = FlipBit(aBlob, i, k)
    /\ aPc' = "tampered"
    /\ UNCHANGED <<aIn, aOut>>

\* decryptAES(blob, key)
AesDecrypt(key) ==
    /\ aPc \in {"encrypted", "tampered"}
    /\ aOut' = [key |-> key, result |-> decryptAES(aBlob, key)]
    /\ aPc' = "decrypted"
    /\ UNCHANGED <<aIn, aBlob>>

AesNext ==
    /\ \/ AesEncrypt
       \/ \E i \in 1..(IvLength + MaxPlain + TagLength), k \in 0..7 : AesTamper(i, k)
       \/ \E key \in AesKeys : AesDecrypt(key)
    /\ UNCHANGED <<shamirVars, hexVars, nodeVars, serverVars, clientVars, chainVars, groupVars, authVars, fieldVars>>

-----------------------------------------------------------------------------
(* The FileRegistry contract.                                              *)
(*                                                                         *)
(* A BoxMap is a function whose domain is the set of boxes that exist.     *)
(* A method is an operator from the contract state, the transaction        *)
(* sender, the latest timestamp and the arguments to ok and the new state; *)
(* a failed assert rejects the transaction, and a rejected transaction     *)
(* leaves the state as it was.                                             *)

\* most files registered, most transactions, and the last timestamp
MaxFiles == 2
MaxTxns == 4
MaxTime == 2

Accounts == {"acctA", "acctB"}

\* box(key).value = v
Put(map, key, v) ==
    [x \in DOMAIN map \cup {key} |-> IF x = key THEN v ELSE map[x]]

NoBoxes == [x \in {} |-> 0]

\* the state createApplication leaves
createApplication(groupAppId) ==
    [fileCount |-> 0, groupRegistryAppId |-> groupAppId,
     fileCids |-> NoBoxes, fileOwners |-> NoBoxes, fileNames |-> NoBoxes,
     fileGroupIds |-> NoBoxes, fileCreatedAt |-> NoBoxes, fileUpdatedAt |-> NoBoxes,
     fileIsDeleted |-> NoBoxes,
     fileShare1 |-> NoBoxes, fileShare2 |-> NoBoxes, fileShare3 |-> NoBoxes,
     accessHas |-> NoBoxes, accessPermission |-> NoBoxes, accessWrappedKey |-> NoBoxes,
     accessGrantedAt |-> NoBoxes, accessExpiresAt |-> NoBoxes,
     encryptionKeys |-> NoBoxes]

Accepted(st) == [ok |-> TRUE, error |-> "", state |-> st]
Rejected(st, message) == [ok |-> FALSE, error |-> message, state |-> st]

registerFile(st, sender, ts, cid, filename, groupId, share1, share2, share3) ==
    Accepted([st EXCEPT
        !.fileCount = st.fileCount + 1,
        !.fileCids = Put(st.fileCids, st.fileCount + 1, cid),
        !.fileOwners = Put(st.fileOwners, st.fileCount + 1, sender),
        !.fileNames = Put(st.fileNames, st.fileCount + 1, filename),
        !.fileGroupIds = Put(st.fileGroupIds, st.fileCount + 1, groupId),
        !.fileCreatedAt = Put(st.fileCreatedAt, st.fileCount + 1, ts),
        !.fileUpdatedAt = Put(st.fileUpdatedAt, st.fileCount + 1, ts),
        !.fileIsDeleted = Put(st.fileIsDeleted, st.fileCount + 1, 0),
        !.fileShare1 = Put(st.fileShare1, st.fileCount + 1, share1),
        !.fileShare2 = Put(st.fileShare2, st.fileCount + 1, share2),
        !.fileShare3 = Put(st.fileShare3, st.fileCount + 1, share3)])

updateFile_NoOwnerCheck(st, sender, ts, fileId, newCid) ==
    IF fileId \notin DOMAIN st.fileOwners THEN Rejected(st, "File does not exist")
    ELSE IF st.fileIsDeleted[fileId] # 0 THEN Rejected(st, "File is deleted")
    ELSE Accepted([st EXCEPT
             !.fileCids = Put(st.fileCids, fileId, newCid),
             !.fileUpdatedAt = Put(st.fileUpdatedAt, fileId, ts)])

updateFile(st, sender, ts, fileId, newCid) ==
    IF fileId \notin DOMAIN st.fileOwners THEN Rejected(st, "File does not exist")
    ELSE IF st.fileOwners[fileId] # sender THEN Rejected(st, "Not the owner")
    ELSE IF st.fileIsDeleted[fileId] # 0 THEN Rejected(st, "File is deleted")
    ELSE Accepted([st EXCEPT
             !.fileCids = Put(st.fileCids, fileId, newCid),
             !.fileUpdatedAt = Put(st.fileUpdatedAt, fileId, ts)])

deleteFile(st, sender, ts, fileId) ==
    IF fileId \notin DOMAIN st.fileOwners THEN Rejected(st, "File does not exist")
    ELSE IF st.fileOwners[fileId] # sender THEN Rejected(st, "Not the owner")
    ELSE Accepted([st EXCEPT !.fileIsDeleted = Put(st.fileIsDeleted, fileId, 1)])

grantAccess(st, sender, ts, fileId, user, permission, wrappedKey, expiresAt) ==
    IF fileId \notin DOMAIN st.fileOwners THEN Rejected(st, "File does not exist")
    ELSE IF st.fileOwners[fileId] # sender THEN Rejected(st, "Not the owner")
    ELSE IF st.fileIsDeleted[fileId] # 0 THEN Rejected(st, "File is deleted")
    ELSE Accepted([st EXCEPT
             !.accessHas = Put(st.accessHas, <<fileId, user>>, 1),
             !.accessPermission = Put(st.accessPermission, <<fileId, user>>, permission),
             !.accessWrappedKey = Put(st.accessWrappedKey, <<fileId, user>>, wrappedKey),
             !.accessGrantedAt = Put(st.accessGrantedAt, <<fileId, user>>, ts),
             !.accessExpiresAt = Put(st.accessExpiresAt, <<fileId, user>>, expiresAt)])

revokeAccess(st, sender, ts, fileId, user) ==
    IF fileId \notin DOMAIN st.fileOwners THEN Rejected(st, "File does not exist")
    ELSE IF st.fileOwners[fileId] # sender THEN Rejected(st, "Not the owner")
    ELSE Accepted([st EXCEPT !.accessHas = Put(st.accessHas, <<fileId, user>>, 0)])

registerPublicKey(st, sender, ts, publicKey) ==
    Accepted([st EXCEPT !.encryptionKeys = Put(st.encryptionKeys, sender, publicKey)])

\* hasValidAccess (readonly): ts is Global.latestTimestamp
GrantValid(st, ts, key) ==
    /\ key \in DOMAIN st.accessHas
    /\ st.accessHas[key] = 1
    /\ (st.accessExpiresAt[key] = 0 \/ st.accessExpiresAt[key] > ts)

hasValidAccess_NoDeletedCheck(st, ts, fileId, user) ==
    IF fileId \notin DOMAIN st.fileOwners THEN FALSE
    ELSE IF st.fileOwners[fileId] = user THEN TRUE
    ELSE GrantValid(st, ts, <<fileId, user>>)

hasValidAccess(st, ts, fileId, user) ==
    IF fileId \notin DOMAIN st.fileOwners THEN FALSE
    ELSE IF st.fileIsDeleted[fileId] = 1 THEN FALSE
    ELSE IF st.fileOwners[fileId] = user THEN TRUE
    ELSE GrantValid(st, ts, <<fileId, user>>)

\* the record of what was done: who registered each file, which files were
\* deleted, and the expiresAt of every grant not revoked since
NoHistory == [owners |-> NoBoxes, deleted |-> {}, grants |-> NoBoxes]

Without(map, key) == [x \in DOMAIN map \ {key} |-> map[x]]

-----------------------------------------------------------------------------
(* The FileRegistry contract on the chain *)

RegistryOff ==
    /\ registry = createApplication(0)
    /\ frTxn = [method |-> "none", sender |-> "none", fileId |-> 0, ok |-> FALSE, error |-> ""]
    /\ frTime = 0
    /\ frTxns = 0
    /\ frHistory = NoHistory

\* the application was created, with no GroupRegistry set, at time 1
RegistryInit ==
    /\ registry = createApplication(0)
    /\ frTxn = [method |-> "createApplication", sender |-> "acctA", fileId |-> 0,
                ok |-> TRUE, error |-> ""]
    /\ frTime = 1
    /\ frTxns = 0
    /\ frHistory = NoHistory

\* a transaction calling a method is evaluated: r is what the method gives
Transact(method, sender, fileId, r) ==
    /\ frTxns < MaxTxns
    /\ frTxns' = frTxns + 1
    /\ registry' = r.state
    /\ frTxn' = [method |-> method, sender |-> sender, fileId |-> fileId,
                 ok |-> r.ok, error |-> r.error]
    /\ UNCHANGED frTime

RegisterFile(sender) ==
    /\ registry.fileCount < MaxFiles
    /\ Transact("registerFile", sender, registry.fileCount + 1,
                registerFile(registry, sender, frTime, "cid1", "name", 0, "s1", "s2", "s3"))
    /\ frHistory' = [frHistory EXCEPT
                         !.owners = Put(@, registry.fileCount + 1, sender)]

UpdateFile(sender, fileId) ==
    /\ Transact("updateFile", sender, fileId,
                updateFile(registry, sender, frTime, fileId, "cid2"))
    /\ UNCHANGED frHistory

DeleteRegistered(sender, fileId) ==
    /\ Transact("deleteFile", sender, fileId, deleteFile(registry, sender, frTime, fileId))
    /\ frHistory' = IF frTxn'.ok
                     THEN [frHistory EXCEPT !.deleted = @ \cup {fileId}]
                     ELSE frHistory

GrantAccess(sender, fileId, user, expiresAt) ==
    /\ Transact("grantAccess", sender, fileId,
                grantAccess(registry, sender, frTime, fileId, user, "read", "wk", expiresAt))
    /\ frHistory' = IF frTxn'.ok
                     THEN [frHistory EXCEPT !.grants = Put(@, <<fileId, user>>, expiresAt)]
                     ELSE frHistory

RevokeAccess(sender, fileId, user) ==
    /\ Transact("revokeAccess", sender, fileId,
                revokeAccess(registry, sender, frTime, fileId, user))
    /\ frHistory' = IF frTxn'.ok
                     THEN [frHistory EXCEPT !.grants = Without(@, <<fileId, user>>)]
                     ELSE frHistory

RegisterPublicKey(sender) ==
    /\ Transact("registerPublicKey", sender, 0,
                registerPublicKey(registry, sender, frTime, "pk"))
    /\ UNCHANGED frHistory

\* a later block: Global.latestTimestamp grows
NewBlock ==
    /\ frTime < MaxTime
    /\ frTime' = frTime + 1
    /\ UNCHANGED <<registry, frTxn, frTxns, frHistory>>

\* the file ids of the calls: those registered, and one that never is
FileIds == 1..(MaxFiles + 1)

RegistryNext ==
    /\ \/ \E sender \in Accounts : RegisterFile(sender)
       \/ \E sender \in Accounts, fileId \in FileIds : UpdateFile(sender, fileId)
       \/ \E sender \in Accounts, fileId \in FileIds : DeleteRegistered(sender, fileId)
       \/ \E sender \in Accounts, fileId \in FileIds, user \in Accounts,
             expiresAt \in {0, MaxTime} :
              GrantAccess(sender, fileId, user, expiresAt)
       \/ \E sender \in Accounts, fileId \in FileIds, user \in Accounts :
              RevokeAccess(sender, fileId, user)
       \/ \E sender \in Accounts : RegisterPublicKey(sender)
       \/ NewBlock
    /\ UNCHANGED <<shamirVars, hexVars, nodeVars, aesVars, serverVars, clientVars, groupVars, authVars, fieldVars>>

\* ======================================================================
\* The GroupRegistry contract (smart_contracts/group_registry).
\* memberStatuses and memberRoles are box maps keyed by <<groupId, user>>;
\* a failed assert rejects the transaction and leaves the state as it was.
\* ======================================================================
StatusNone == 0
StatusInvited == 1
StatusJoined == 2
RoleMember == 0
RoleAdmin == 1

GroupRegistryCreated ==
    [groupCount |-> 0, groupNames |-> NoBoxes, groupCreators |-> NoBoxes,
     memberStatuses |-> NoBoxes, memberRoles |-> NoBoxes]

createGroup(st, sender, name) ==
    Accepted([st EXCEPT
        !.groupCount = st.groupCount + 1,
        !.groupNames = Put(st.groupNames, st.groupCount + 1, name),
        !.groupCreators = Put(st.groupCreators, st.groupCount + 1, sender),
        !.memberStatuses = Put(st.memberStatuses, <<st.groupCount + 1, sender>>, StatusJoined),
        !.memberRoles = Put(st.memberRoles, <<st.groupCount + 1, sender>>, RoleAdmin)])

\* The three asserts inviteMember and removeMember open with; "" when all pass.
CallerError(st, callerKey) ==
    IF callerKey \notin DOMAIN st.memberStatuses THEN "Caller is not a member"
    ELSE IF st.memberStatuses[callerKey] # StatusJoined THEN "Caller has not joined"
    ELSE IF callerKey \notin DOMAIN st.memberRoles THEN "Box does not exist"
    ELSE IF st.memberRoles[callerKey] # RoleAdmin THEN "Caller is not admin"
    ELSE ""

inviteMember(st, sender, groupId, user) ==
    IF CallerError(st, <<groupId, sender>>) # ""
    THEN Rejected(st, CallerError(st, <<groupId, sender>>))
    ELSE Accepted([st EXCEPT
        !.memberStatuses = Put(st.memberStatuses, <<groupId, user>>, StatusInvited),
        !.memberRoles = Put(st.memberRoles, <<groupId, user>>, RoleMember)])

acceptInvite_NoInviteCheck(st, sender, groupId) ==
    Accepted([st EXCEPT
        !.memberStatuses = Put(st.memberStatuses, <<groupId, sender>>, StatusJoined)])

acceptInvite(st, sender, groupId) ==
    IF <<groupId, sender>> \notin DOMAIN st.memberStatuses
    THEN Rejected(st, "No invite found")
    ELSE IF st.memberStatuses[<<groupId, sender>>] # StatusInvited
    THEN Rejected(st, "Not invited")
    ELSE Accepted([st EXCEPT
        !.memberStatuses = Put(st.memberStatuses, <<groupId, sender>>, StatusJoined)])

rejectInvite(st, sender, groupId) ==
    IF <<groupId, sender>> \notin DOMAIN st.memberStatuses
    THEN Rejected(st, "No invite found")
    ELSE IF st.memberStatuses[<<groupId, sender>>] # StatusInvited
    THEN Rejected(st, "Not invited")
    ELSE Accepted([st EXCEPT
        !.memberStatuses = Put(st.memberStatuses, <<groupId, sender>>, StatusNone)])

removeMember(st, sender, groupId, user) ==
    IF CallerError(st, <<groupId, sender>>) # ""
    THEN Rejected(st, CallerError(st, <<groupId, sender>>))
    ELSE Accepted([st EXCEPT
        !.memberStatuses = Put(st.memberStatuses, <<groupId, user>>, StatusNone)])

leaveGroup(st, sender, groupId) ==
    IF <<groupId, sender>> \notin DOMAIN st.memberStatuses
    THEN Rejected(st, "Not a member")
    ELSE IF st.memberStatuses[<<groupId, sender>>] # StatusJoined
    THEN Rejected(st, "Not joined")
    ELSE Accepted([st EXCEPT
        !.memberStatuses = Put(st.memberStatuses, <<groupId, sender>>, StatusNone)])

isMember(st, groupId, user) ==
    /\ <<groupId, user>> \in DOMAIN st.memberStatuses
    /\ st.memberStatuses[<<groupId, user>>] = StatusJoined

isAdmin(st, groupId, user) ==
    /\ <<groupId, user>> \in DOMAIN st.memberStatuses
    /\ <<groupId, user>> \in DOMAIN st.memberRoles
    /\ st.memberStatuses[<<groupId, user>>] = StatusJoined
    /\ st.memberRoles[<<groupId, user>>] = RoleAdmin

\* ---- the contract as a state machine: one action per ABI method ------
MaxGroups == 2
MaxGroupTxns == 5
ContractGroupIds == 1..(MaxGroups + 1)
NoGroupTxn ==
    [method |-> "", sender |-> "", groupId |-> 0, user |-> "", ok |-> TRUE, error |-> ""]

GroupsOff ==
    /\ groupRegistry = GroupRegistryCreated
    /\ grTxn = NoGroupTxn
    /\ grTxns = MaxGroupTxns
    /\ grInvited = {}

GroupsInit ==
    /\ groupRegistry = GroupRegistryCreated
    /\ grTxn = NoGroupTxn
    /\ grTxns = 0
    /\ grInvited = {}

\* grInvited is history: the keys whose standing invitation was written by an
\* inviteMember call the contract accepted from a sender who was a joined
\* admin of the group when the call ran.
GroupTransact(method, sender, groupId, user, r, invited) ==
    /\ grTxns < MaxGroupTxns
    /\ grTxns' = grTxns + 1
    /\ groupRegistry' = r.state
    /\ grTxn' = [method |-> method, sender |-> sender, groupId |-> groupId,
                 user |-> user, ok |-> r.ok, error |-> r.error]
    /\ grInvited' = IF r.ok THEN invited ELSE grInvited

GrCreateGroup(sender) ==
    /\ groupRegistry.groupCount < MaxGroups
    /\ GroupTransact("createGroup", sender, groupRegistry.groupCount + 1, sender,
                     createGroup(groupRegistry, sender, "g"),
                     grInvited \ {<<groupRegistry.groupCount + 1, sender>>})

GrInviteMember(sender, groupId, user) ==
    GroupTransact("inviteMember", sender, groupId, user,
                  inviteMember(groupRegistry, sender, groupId, user),
                  IF isAdmin(groupRegistry, groupId, sender)
                  THEN grInvited \cup {<<groupId, user>>}
                  ELSE grInvited \ {<<groupId, user>>})

GrAcceptInvite(sender, groupId) ==
    GroupTransact("acceptInvite", sender, groupId, sender,
                  acceptInvite(groupRegistry, sender, groupId), grInvited)

GrRejectInvite(sender, groupId) ==
    GroupTransact("rejectInvite", sender, groupId, sender,
                  rejectInvite(groupRegistry, sender, groupId),
                  grInvited \ {<<groupId, sender>>})

GrRemoveMember(sender, groupId, user) ==
    GroupTransact("removeMember", sender, groupId, user,
                  removeMember(groupRegistry, sender, groupId, user),
                  grInvited \ {<<groupId, user>>})

GrLeaveGroup(sender, groupId) ==
    GroupTransact("leaveGroup", sender, groupId, sender,
                  leaveGroup(groupRegistry, sender, groupId),
                  grInvited \ {<<groupId, sender>>})

GroupsNext ==
    /\ \/ \E sender \in Accounts : GrCreateGroup(sender)
       \/ \E sender \in Accounts, groupId \in ContractGroupIds, user \in Accounts :
              GrInviteMember(sender, groupId, user)
       \/ \E sender \in Accounts, groupId \in ContractGroupIds : GrAcceptInvite(sender, groupId)
       \/ \E sender \in Accounts, groupId \in ContractGroupIds : GrRejectInvite(sender, groupId)
       \/ \E sender \in Accounts, groupId \in ContractGroupIds, user \in Accounts :
              GrRemoveMember(sender, groupId, user)
       \/ \E sender \in Accounts, groupId \in ContractGroupIds : GrLeaveGroup(sender, groupId)
    /\ UNCHANGED <<nodeVars, shamirVars, hexVars, aesVars, chainVars, authVars, serverVars, clientVars, fieldVars>>

\* ======================================================================
\* The login routes of the API server: GET /api/auth/nonce/:address and
\* POST /api/auth/verify, over the nonces and users maps.
\* ======================================================================
\* the lifetime of a nonce, in milliseconds
NonceTtlMs == 300000
\* what crypto.randomBytes(32).toString('hex') may draw
NonceTexts == {"n1", "n2"}
\* a request body without a nonce field
NoNonce == ""
MaxAuthRequests == 4
MaxAuthTicks == 2

NoAuthResponse == [route |-> "", address |-> "", nonce |-> "", status |-> 0, body |-> <<>>]

AuthMessage(address, nonce, ts) == [address |-> address, nonce |-> nonce, timestamp |-> ts]

\* GET /api/auth/nonce/:address; nonce is the random draw
NonceRoute(nonces, address, nonce, ts) ==
    [nonces |-> Put(nonces, address,
                    [nonce |-> nonce, message |-> AuthMessage(address, nonce, ts),
                     expiresAt |-> ts + NonceTtlMs]),
     status |-> 200,
     body |-> [nonce |-> nonce, message |-> AuthMessage(address, nonce, ts)]]

\* jwt.sign({ address, iat }, JWT_SECRET, { expiresIn: '24h' })
SignToken(address, ts) == [token |-> [address |-> address, iat |-> ts \div 1000], address |-> address]

\* POST /api/auth/verify; only the address of the body is read
VerifyRoute(nonces, userMap, address, ts) ==
    IF address \notin DOMAIN nonces
    THEN [nonces |-> nonces, users |-> userMap, status |-> 400,
          body |-> [error |-> "No nonce found for this address"]]
    ELSE IF ts > nonces[address].expiresAt
    THEN [nonces |-> Without(nonces, address), users |-> userMap, status |-> 400,
          body |-> [error |-> "Nonce expired"]]
    ELSE [nonces |-> Without(nonces, address),
          users |-> IF address \in DOMAIN userMap THEN userMap
                    ELSE Put(userMap, address, [address |-> address, createdAt |-> ts]),
          status |-> 200,
          body |-> SignToken(address, ts)]

\* ---- the two routes as a state machine -------------------------------
NoIssue == [issued |-> FALSE, nonce |-> "", expiresAt |-> 0, tokens |-> 0]

AuthOff ==
    /\ authNonces = NoBoxes
    /\ authUsers = NoBoxes
    /\ authNow = 0
    /\ authResp = NoAuthResponse
    /\ authLedger = [a \in Users |-> NoIssue]
    /\ authCount = <<MaxAuthRequests, MaxAuthTicks>>

AuthInit ==
    /\ authNonces = NoBoxes
    /\ authUsers = NoBoxes
    /\ authNow = TickMs
    /\ authResp = NoAuthResponse
    /\ authLedger = [a \in Users |-> NoIssue]
    /\ authCount = <<0, 0>>

\* authLedger is history: per address, the nonce last handed out, when it
\* expires, and how many tokens were issued since it was handed out
AuthAnswered(route, address, nonce, r) ==
    /\ authCount[1] < MaxAuthRequests
    /\ authCount' = <<authCount[1] + 1, authCount[2]>>
    /\ authNonces' = r.nonces
    /\ authResp' = [route |-> route, address |-> address, nonce |-> nonce,
                    status |-> r.status, body |-> r.body]
    /\ UNCHANGED authNow

GetNonce(address, nonce) ==
    /\ AuthAnswered("nonce", address, nonce, NonceRoute(authNonces, address, nonce, authNow))
    /\ authLedger' = [authLedger EXCEPT ![address] =
           [issued |-> TRUE, nonce |-> nonce, expiresAt |-> authNow + NonceTtlMs, tokens |-> 0]]
    /\ UNCHANGED authUsers

PostVerify(address, nonce) ==
    /\ AuthAnswered("verify", address, nonce, VerifyRoute(authNonces, authUsers, address, authNow))
    /\ authUsers' = VerifyRoute(authNonces, authUsers, address, authNow).users
    /\ authLedger' = IF authResp'.status = 200
                     THEN [authLedger EXCEPT ![address].tokens = @ + 1]
                     ELSE authLedger

AuthClock(step) ==
    /\ authCount[2] < MaxAuthTicks
    /\ authCount' = <<authCount[1], authCount[2] + 1>>
    /\ authNow' = authNow + step
    /\ UNCHANGED <<authNonces, authUsers, authResp, authLedger>>

AuthNext ==
    /\ \/ \E address \in Users, nonce \in NonceTexts : GetNonce(address, nonce)
       \/ \E address \in Users, nonce \in NonceTexts \cup {NoNonce} : PostVerify(address, nonce)
       \/ \E step \in {1, NonceTtlMs} : AuthClock(step)
    /\ UNCHANGED <<nodeVars, shamirVars, hexVars, aesVars, chainVars, groupVars, serverVars, clientVars, fieldVars>>

\* ======================================================================
\* gfMul and gfDiv driven on their own, over every pair of bytes.
\* ======================================================================
FieldOff ==
    /\ fA = 0 /\ fB = 0 /\ fOut = 0 /\ fPc = "off"

FieldInit ==
    /\ fA \in 0..255 /\ fB \in 0..255 /\ fOut = 0 /\ fPc = "start"

\* gfMul(a, b)
Multiply ==
    /\ fPc = "start"
    /\ fOut' = gfMul(fA, fB)
    /\ fPc' = "mul"
    /\ UNCHANGED <<fA, fB>>

\* gfDiv(a, b)
Divide ==
    /\ fPc = "start"
    /\ fOut' = gfDiv(fA, fB)
    /\ fPc' = "div"
    /\ UNCHANGED <<fA, fB>>

\* gfDiv(gfMul(a, b), b)
DivideProduct ==
    /\ fPc = "mul"
    /\ fOut' = gfDiv(fOut, fB)
    /\ fPc' = "muldiv"
    /\ UNCHANGED <<fA, fB>>

\* gfMul(gfDiv(a, b), b), when gfDiv returned
MultiplyQuotient ==
    /\ fPc = "div"
    /\ fOut # DivByZero
    /\ fOut' = gfMul(fOut, fB)
    /\ fPc' = "divmul"
    /\ UNCHANGED <<fA, fB>>

FieldNext ==
    /\ \/ Multiply
       \/ Divide
       \/ DivideProduct
       \/ MultiplyQuotient
    /\ UNCHANGED <<nodeVars, shamirVars, hexVars, aesVars, chainVars, groupVars, authVars, serverVars, clientVars>>

InitField ==
    FieldInit /\ AuthOff /\ GroupsOff /\ RegistryOff /\ AesOff /\ ShamirOff /\ HexOff /\ NodeOff /\ ServerInit

SpecField == InitField /\ [][FieldNext]_vars

InitGroups ==
    FieldOff /\ AuthOff /\ GroupsInit /\ RegistryOff /\ AesOff /\ ShamirOff /\ HexOff /\ NodeOff /\ ServerInit

SpecGroups == InitGroups /\ [][GroupsNext]_vars

InitAuth ==
    FieldOff /\ AuthInit /\ GroupsOff /\ RegistryOff /\ AesOff /\ ShamirOff /\ HexOff /\ NodeOff /\ ServerInit

SpecAuth == InitAuth /\ [][AuthNext]_vars

InitNodes == FieldOff /\ AuthOff /\ GroupsOff /\ RegistryOff /\ AesOff /\ NodeStarted(ServedEnvs) /\ ShamirOff /\ HexOff /\ ServerInit

SpecNodes == InitNodes /\ [][NodesNext]_vars

InitIdentity == FieldOff /\ AuthOff /\ GroupsOff /\ RegistryOff /\ AesOff /\ NodeStarted(Envs) /\ ShamirOff /\ HexOff /\ ServerInit

SpecIdentity == InitIdentity /\ [][IdentityNext]_vars

InitAes == FieldOff /\ AuthOff /\ GroupsOff /\ RegistryOff /\ AesInit /\ ShamirOff /\ HexOff /\ NodeOff /\ ServerInit

SpecAes == InitAes /\ [][AesNext]_vars

InitRegistry ==
    FieldOff /\ AuthOff /\ GroupsOff /\ RegistryInit /\ AesOff /\ ShamirOff /\ HexOff /\ NodeOff /\ ServerInit

SpecRegistry == InitRegistry /\ [][RegistryNext]_vars

\* the encoding driven, all else idle
InitHex == FieldOff /\ AuthOff /\ GroupsOff /\ RegistryOff /\ AesOff /\ HexInit /\ ShamirOff /\ NodeOff /\ ServerInit

SpecHex == InitHex /\ [][HexNext]_vars

\* the library driven, the server idle
InitShamir == FieldOff /\ AuthOff /\ GroupsOff /\ RegistryOff /\ AesOff /\ ShamirInit /\ HexOff /\ NodeOff /\ ServerInit

SpecShamir == InitShamir /\ [][ShamirNext]_vars

\* the server and its clients running, the library harness off
Init == FieldOff /\ AuthOff /\ GroupsOff /\ RegistryOff /\ AesOff /\ ShamirOff /\ HexOff /\ NodeOff /\ ServerInit

Spec == Init /\ [][Next]_vars

-----------------------------------------------------------------------------
(* Claims about the Shamir library, checked under SpecShamir *)

\* the shares passed to reconstructSecret were selected from a successful split
FromSplit == sPc = "done" /\ sShares.ok

\* some two shares of the input carry the same x-coordinate
DuplicateX(in) == \E a, b \in 1..Len(in) : a # b /\ in[a][1] = in[b][1]

\* C1: reconstructSecret on any k or more distinct shares of
\* splitSecret(S, n, k), in any order, returns S byte for byte.
C1_RoundTrip ==
    (FromSplit /\ Len(rInput) >= sK) => rResult = Ok(sSecret)

\* three shares of a 3-of-3 split with a non-zero secret and non-zero
\* coefficients, passed out of order
C1_Witness ==
    /\ FromSplit /\ sK = 3 /\ Len(rInput) = 3
    /\ rInput[1][1] > rInput[2][1]
    /\ Len(sSecret) = 1 /\ sSecret[1] # 0
    /\ sRnd[1][1] # 0 /\ sRnd[1][2] # 0
    /\ rResult = Ok(sSecret)

\* C2 as stated: exactly k-1 shares give, without an error, a value other
\* than S.
C2_Original ==
    (FromSplit /\ Len(rInput) = sK - 1) => (rResult.ok /\ rResult.value # sSecret)

\* C2 as amended: for k >= 3, k-1 shares give a value without an error, and
\* the value differs from S exactly when the highest coefficient drawn for
\* some byte is non-zero; for k = 2 the single share raises
\* 'Need at least 2 shares'.
C2_BelowThreshold ==
    (FromSplit /\ Len(rInput) = sK - 1) =>
        IF sK = 2
        THEN rResult = Err("Need at least 2 shares")
        ELSE /\ rResult.ok
             /\ (rResult.value # sSecret) <=>
                    (\E b \in 1..Len(sSecret) : sRnd[b][sK - 1] # 0)

\* two shares of a 3-of-3 split whose highest coefficient is non-zero
C2_Witness ==
    /\ FromSplit /\ sK = 3 /\ Len(rInput) = 2
    /\ Len(sSecret) = 1 /\ sRnd[1][2] # 0
    /\ rResult.ok /\ rResult.value # sSecret

\* C9: splitSecret fails, producing no shares, exactly when 2 <= k <= n <= 255
\* is violated, and succeeds with n shares otherwise.
C9_SplitPrecondition ==
    (sPc = "split") =>
        /\ sShares.ok <=> (2 <= sK /\ sK <= sN /\ sN <= 255)
        /\ sShares.ok => Len(sShares.value) = sN
        /\ ~sShares.ok => (sShares.value = <<>> /\ sShares.error # "")

\* the call with n = 256 is refused
C9_Witness ==
    sPc = "split" /\ sN = 256 /\ sK = 2 /\ sShares = Err("Max 255 shares")

\* C10 as stated: two or more shares, whatever they are (duplicate
\* x-coordinates included), give a value without an error.
C10_Original ==
    (sPc = "done" /\ Len(rInput) >= 2) => rResult.ok

\* C10 as amended: reconstructSecret never checks that the shares belong to
\* one split: two or more shares with pairwise distinct x-coordinates give a
\* value without an error, whatever data they carry; shares that repeat an
\* x-coordinate raise 'Division by zero in GF(256)' (unless the shares carry
\* no data byte).
C10_NoValidation ==
    (sPc = "done" /\ Len(rInput) >= 2) =>
        IF DuplicateX(rInput) /\ Len(rInput[1]) > 1
        THEN rResult = Err("Division by zero in GF(256)")
        ELSE rResult.ok /\ Len(rResult.value) = Len(rInput[1]) - 1

\* three hand-made shares with distinct x-coordinates that lie on no common
\* line: the first two alone give another value than all three
C10_Witness ==
    /\ sPc = "done" /\ ~sShares.ok /\ Len(rInput) = 3
    /\ ~DuplicateX(rInput) /\ Len(rInput[1]) = 2
    /\ rResult.ok
    /\ rResult # reconstructSecret(SubSeq(rInput, 1, 2))

-----------------------------------------------------------------------------
(* Claims about key custody and key release, checked under Spec *)

\* every share entry, over all recipients
AllShareEntries ==
    UNION {{sharesStore[o][i] : i \in 1..Len(sharesStore[o])} : o \in Users}

\* the last response is a successful answer of one of the two key routes
KeyRelease == resp.op \in {"sharedKey", "groupKey"} /\ resp.status = 200

\* the key of file id was split by one of the upload pages
SplitAtUpload(id) == uploadKey[id] # <<>>

\* C3: in every reachable state no single party's stored state contains a
\* file's encryption key or a quorum (2 or more) of its shares.  Stated for
\* the server's stores and the files the upload pages split the key of.
C3_NoCustodianHoldsKey ==
    /\ \A f \in AllFiles :
          SplitAtUpload(f.id) =>
             f.encryptionKey # keyToHex(uploadKey[f.id]) /\ Len(f.shares) < 2
    /\ \A sh \in AllShareEntries :
          SplitAtUpload(sh.fileId) =>
             sh.encryptionKey # keyToHex(uploadKey[sh.fileId]) /\ Len(sh.shares) < 2

\* C4: with 3 shares on file a key-release response carries exactly 2 shares
\* of distinct indices, the released and the withheld index partition
\* {0, 1, 2}, releasedNodes names the nodes of the released shares in the
\* same order, and threshold = 2, totalShares = 3.
C4_QuorumOfTwo ==
    (KeyRelease /\ Len(release.allShares) >= 3) =>
        LET body == resp.body
            picked == release.picked
            withheld == release.indices[3]
        IN  /\ \E item \in AllFiles \cup AllShareEntries :
                  item.shares = release.allShares
            /\ Len(picked) = 2 /\ picked[1] # picked[2]
            /\ withheld \notin {picked[1], picked[2]}
            /\ {picked[1], picked[2], withheld} = {0, 1, 2}
            /\ Len(body.shares) = 2 /\ Len(body.releasedNodes) = 2
            /\ \A p \in 1..2 :
                  /\ body.shares[p] = release.allShares[picked[p] + 1]
                  /\ body.releasedNodes[p] = nodeNames[picked[p] + 1]
            /\ body.threshold = 2 /\ body.totalShares = 3

\* a group member is sent the shares of gamma and alpha, in that order
C4_Witness ==
    /\ KeyRelease /\ resp.op = "groupKey"
    /\ Len(release.allShares) = 3
    /\ release.picked = <<2, 0>>
    /\ resp.body.releasedNodes = <<"gamma", "alpha">>
    /\ resp.body.shares = <<release.allShares[3], release.allShares[1]>>

\* C5: with 3 shares on file a key-release response gives only the 2 selected
\* shares; the complete key is sent directly only when fewer than 3 shares
\* are on file.
C5_ShardingEnforced ==
    (KeyRelease /\ Len(release.allShares) >= 3) =>
        Len(resp.body.shares) = 2 /\ resp.body.encryptionKey = NullKey

\* C6: for a file whose key K the upload page split 2-of-3 and that was then
\* shared, the recipient's handleDownload rebuilds exactly K from the shares
\* of the key-release response, whichever two shares were selected and in
\* whichever order.
C6_EndToEnd ==
    (/\ download.status = 200 /\ ~download.cached
     /\ SplitAtUpload(download.fileId)) =>
        /\ release.sharded
        /\ Len(resp.body.shares) = 2
        /\ download.keyHex = keyToHex(uploadKey[download.fileId])
        /\ session[download.user][download.fileId] = download.keyHex

\* the recipient rebuilds the key ff from the shares of gamma and beta
C6_Witness ==
    /\ download.status = 200 /\ ~download.cached
    /\ uploadKey[download.fileId] = <<255>>
    /\ release.picked = <<2, 1>>
    /\ Len(resp.body.shares[1]) = 4
    /\ download.keyHex = <<"f", "f">>
    /\ \E f \in AllFiles : f.id = download.fileId /\ f.owner # download.user

\* the requests a key route admits: the share entry exists and has not
\* expired; the group exists, the requester is an active member and the
\* file is in the group
SharedAdmitted(u, shareId) ==
    /\ ShareIdx(u, shareId) # 0
    /\ LET share == sharesStore[u][ShareIdx(u, shareId)]
       IN  ~(share.expiresAt > 0 /\ share.expiresAt < now)

GroupAdmitted(u, id, fileId) ==
    /\ GroupIdx(id) # 0
    /\ HasMember(groupsStore[GroupIdx(id)],
                 LAMBDA m : m.address = u /\ m.status \in {"active", "joined"})
    /\ \E f \in AllFiles : f.id = fileId /\ f.groupId = id

\* the node a response of the handler withholds
WithheldBy(r) == r.release.indices[3]

\* a step that ends in a new answer of a key route
KeyReleaseStep ==
    /\ resp'.op \in {"sharedKey", "groupKey"}
    /\ <<resp', release'>> # <<resp, release>>

\* C7: a key-release request leaves every server store unchanged, and on
\* every request, whatever was requested before, each of the 3 nodes can be
\* the withheld one.
C7_StatelessRelease ==
    /\ [][KeyReleaseStep => UNCHANGED <<storeVars, nextId, now>>]_vars
    /\ [](\A u \in Users, id \in Ids :
             (SharedAdmitted(u, id) /\ Len(SharesOnFile(u, id)) >= 3) =>
                \A w \in 0..2 : \E js \in RandomJs(SharesOnFile(u, id)) :
                    WithheldBy(SharedKeyHandler(u, id, js)) = w)
    /\ [](\A u \in Users, id \in Ids, fileId \in Ids :
             (GroupAdmitted(u, id, fileId)
                 /\ Len(GroupSharesOnFile(id, fileId)) >= 3) =>
                \A w \in 0..2 : \E js \in RandomJs(GroupSharesOnFile(id, fileId)) :
                    WithheldBy(GroupKeyHandler(u, id, fileId, js)) = w)

\* the recipient of a share has asked for the key of a file with 3 shares
\* on file, and alpha was withheld
C7_Witness ==
    /\ KeyRelease /\ resp.op = "sharedKey"
    /\ release.sharded /\ release.indices[3] = 0
    /\ \E sh \in AllShareEntries : sh.shares = release.allShares

\* the answer of the fallback: the stored key (null when there is none) and
\* no shares
FallbackBody(encryptionKey) ==
    [encryptionKey |-> encryptionKey, shares |-> <<>>, releasedNodes |-> <<>>,
     threshold |-> 2, totalShares |-> 3]

\* the steps in which u asks a key route
SharedKeyStep(u, shareId) ==
    \E js \in RandomJs(SharesOnFile(u, shareId)) : GetSharedKey(u, shareId, js)

GroupKeyStep(u, id, fileId) ==
    \E js \in RandomJs(GroupSharesOnFile(id, fileId)) : GetGroupKey(u, id, fileId, js)

\* C8: when fewer than 3 shares are on file for the requested shared or group
\* file, the key-release request (of a requester the route admits) is not an
\* error: it is answered 200 with empty shares and releasedNodes and the
\* stored encryption key.
C8_DirectRelease ==
    [][/\ \A u \in Users, id \in Ids :
            (/\ SharedAdmitted(u, id)
             /\ Len(SharesOnFile(u, id)) < 3
             /\ SharedKeyStep(u, id)) =>
                resp' = Response("sharedKey", u, 200,
                            FallbackBody(sharesStore[u][ShareIdx(u, id)].encryptionKey))
       /\ \A u \in Users, id \in Ids, fileId \in Ids :
            (/\ GroupAdmitted(u, id, fileId)
             /\ Len(GroupSharesOnFile(id, fileId)) < 3
             /\ GroupKeyStep(u, id, fileId)) =>
                \E f \in AllFiles :
                   /\ f.id = fileId /\ f.groupId = id
                   /\ resp' = Response("groupKey", u, 200,
                                       FallbackBody(f.encryptionKey))]_vars

\* a group member is sent the key of a file uploaded without shares
C8_Witness ==
    /\ KeyRelease /\ resp.op = "groupKey"
    /\ ~release.sharded /\ release.allShares = <<>>
    /\ resp.body.encryptionKey # NullKey
    /\ resp.body.shares = <<>> /\ resp.body.releasedNodes = <<>>
    /\ \E f \in AllFiles : f.groupId # NoGroup /\ f.encryptionKey = resp.body.encryptionKey

-----------------------------------------------------------------------------
(* Further claims about the Shamir library, checked under SpecShamir *)

\* two or more shares with pairwise distinct x-coordinates in 1..255
ValidShares(in) ==
    /\ Len(in) >= 2
    /\ \A a \in 1..Len(in) : in[a][1] \in 1..255
    /\ ~DuplicateX(in)

XsOf(in) == [a \in 1..Len(in) |-> in[a][1]]

\* C11: on 2 or more shares with pairwise distinct x-coordinates in 1..255
\* reconstructSecret never hands gfDiv a zero divisor and never raises the
\* division-by-zero error.
C11_NoDivisionByZero ==
    (sPc = "done" /\ ValidShares(rInput)) =>
        /\ \A i \in 1..Len(rInput) :
              LagrangeLoop(XsOf(rInput), i, 1, 1, 1).denominator # 0
        /\ rResult.ok

\* the shares with x-coordinates 255, 1 and 2 of a 255-share split are
\* reconstructed from
C11_Witness ==
    /\ FromSplit /\ sN = 255 /\ Len(rInput) = 3
    /\ XsOf(rInput) = <<255, 1, 2>>
    /\ Len(sSecret) = 1
    /\ rResult.ok

\* multiplication in GF(2^8) modulo 0x11B by shift and add: the product of a
\* and b given the sum acc so far
RECURSIVE MulFrom(_, _, _)
MulFrom(a, b, acc) ==
    IF b = 0 THEN acc
    ELSE MulFrom(IF 2 * a >= 256 THEN Xor(2 * a, 283) ELSE 2 * a,
                 b \div 2,
                 IF b % 2 = 1 THEN Xor(acc, a) ELSE acc)

FieldMul(a, b) == MulFrom(a, b, 0)

\* x to the power m in the field
RECURSIVE FieldPow(_, _)
FieldPow(x, m) == IF m = 0 THEN 1 ELSE FieldMul(x, FieldPow(x, m - 1))

\* the value at x of the polynomial with coefficients c[1] (constant) to
\* c[Len(c)], as the sum of its terms from term m on
RECURSIVE PolyValueFrom(_, _, _)
PolyValueFrom(c, x, m) ==
    IF m > Len(c) THEN 0
    ELSE Xor(FieldMul(c[m], FieldPow(x, m - 1)), PolyValueFrom(c, x, m + 1))

\* C12: splitSecret(secret, n, k) returns exactly n shares of length
\* len(secret) + 1; share i (0-based) starts with the byte i + 1; and byte
\* j + 1 of the share with x-coordinate x is the value at x of a polynomial of
\* degree at most k - 1 with constant coefficient secret[j] (its other
\* coefficients are the k - 1 bytes drawn for byte j).
C12_ShareFormat ==
    (sPc = "split" /\ sShares.ok) =>
        /\ Len(sShares.value) = sN
        /\ \A i \in 1..sN :
              /\ Len(sShares.value[i]) = Len(sSecret) + 1
              /\ sShares.value[i][1] = i
              /\ \A j \in 1..Len(sSecret) :
                    /\ Len(sRnd[j]) = sK - 1
                    /\ sShares.value[i][j + 1] =
                          PolyValueFrom(<<sSecret[j]>> \o sRnd[j], i, 1)

\* a 2-of-3 split of a non-zero byte with a non-zero coefficient: the three
\* shares differ from the secret and from each other
C12_Witness ==
    /\ sPc = "split" /\ sShares.ok /\ sN = 3 /\ sK = 2
    /\ Len(sSecret) = 1 /\ sSecret[1] # 0 /\ sRnd[1][1] # 0
    /\ sShares.value[1][2] # sSecret[1]
    /\ sShares.value[1][2] # sShares.value[2][2]
    /\ sShares.value[2][2] # sShares.value[3][2]

-----------------------------------------------------------------------------
(* Claims about the hex encoding, checked under SpecHex *)

LowerHexChars == {"0", "1", "2", "3", "4", "5", "6", "7",
                  "8", "9", "a", "b", "c", "d", "e", "f"}

\* C13: hexToShare(shareToHex(share)) = share for every byte sequence, and
\* shareToHex emits exactly 2 lowercase hex characters per byte.
C13_HexRoundTrip ==
    /\ hPc \in {"encoded", "decoded"} =>
          /\ Len(hHex) = 2 * Len(hShare)
          /\ \A c \in 1..Len(hHex) : hHex[c] \in LowerHexChars
    /\ hPc = "decoded" => hBack = hShare

\* the bytes 0a and a0 have made the round trip as "0aa0"
C13_Witness ==
    /\ hPc = "decoded" /\ hShare = <<10, 160>>
    /\ hHex = <<"0", "a", "a", "0">>
    /\ hBack = hShare

-----------------------------------------------------------------------------
(* Proxy re-encryption *)

\* the last request was the well-formed re-encrypt request for the share a
\* browser sealed to the key its node still has
SealedAndAsked ==
    /\ nHeld.kind = "held"
    /\ nReq.route = "reencrypt"
    /\ nReq.body = WellFormed(nHeld)
    /\ nHeld.nodePublicKey = nodeKeys[NodeIds[nHeld.index + 1]].publicKey

\* C14: a share sealed by a sender to node i, sent to the re-encrypt route
\* with shareIndex i and the sender's public key, is opened by the node with
\* its own secret key; the response carries a ciphertext and the node's
\* published key, and the recipient opens it with that key and its own
\* secret key to exactly the share that was sealed.
C14_ReencryptRoundTrip ==
    SealedAndAsked =>
        /\ nLocals = nHeld.data
        /\ nResp.status = 200
        /\ nResp.body.nodeId = NodeIds[nHeld.index + 1]
        /\ nResp.body.nodePublicKey = nodeKeys[NodeIds[nHeld.index + 1]].publicKey
        /\ nResp.body.reEncryptedShare.kind = "object"
        /\ decryptFromSender(nResp.body.reEncryptedShare.encrypted,
                             nResp.body.reEncryptedShare.nonce,
                             nodeKeys[NodeIds[nHeld.index + 1]].publicKey,
                             RecipientKeys.secretKey)
               = [ok |-> TRUE, value |-> nHeld.data]
        /\ nOpened # NoOpen => nOpened = [ok |-> TRUE, value |-> nHeld.data]

\* a share sealed to beta, whose key differs from alpha's, came back to the
\* recipient through the route
C14_Witness ==
    /\ SealedAndAsked
    /\ nHeld.index = 1
    /\ nodeKeys["beta"].secretKey # nodeKeys["alpha"].secretKey
    /\ nHeld.data = Bytes(<<1, 83>>)
    /\ nOpened = [ok |-> TRUE, value |-> Bytes(<<1, 83>>)]

\* the re-encrypt handler ran and its step 1 left no share: the inputs
\* were missing, or the open failed or threw
OpenFailed == nReq.route = "reencrypt" /\ Falsy(nLocals)

\* the response reports success
ReportsSuccess == nResp.status = 200 /\ nResp.body.success

\* C15: whenever opening the sealed share fails in the re-encrypt handler
\* (tampered ciphertext, wrong sender key, missing input), the response
\* reports a failure; it is never a success carrying a placeholder in place
\* of the re-encrypted share.
C15_FailuresReported ==
    OpenFailed => ~ReportsSuccess /\ nResp.body.kind = "error"

-----------------------------------------------------------------------------
(* Share encapsulation *)

\* POST /api/encrypt-shares sealed the shares of the last request
SharesSealed ==
    /\ nResp.route = "encrypt-shares"
    /\ nResp.status = 200
    /\ ~Falsy(nReq.body.senderPublicKey)

\* step 1 of the re-encrypt route run by node n on the i-th EncryptedShare
\* of the response, with the ephemeralPublicKey returned beside it
OpenedBy(n, i) ==
    DecryptStep(nodeKeys[n], nResp.body.encryptedShares[i].encryptedShare,
                nResp.body.encryptedShares[i].encryptedShare.ephemeralPublicKey)

\* C16: the EncryptedShare that POST /api/encrypt-shares produces for node i
\* is opened with node i's secret key and the returned ephemeralPublicKey,
\* as the re-encrypt route does for shareIndex i, to the original share, and
\* is not opened with the secret key of a different node.
C16_ConsumableByItsNode ==
    SharesSealed =>
        \A i \in 1..Len(nResp.body.encryptedShares) :
            /\ OpenedBy(NodeIds[i], i) = Bytes(MatchPairs(nReq.body.shares.of[i].of))
            /\ \A n \in Nodes :
                   nodeKeys[n].secretKey # nodeKeys[NodeIds[i]].secretKey
                       => Falsy(OpenedBy(n, i))

-----------------------------------------------------------------------------
(* Custody of the node secret keys *)

\* the texts an EncryptedShare of a response carries
ShareTexts(share) ==
    IF share.kind = "object"
    THEN {share.nonce, share.encrypted}
             \cup (IF "ephemeralPublicKey" \in DOMAIN share
                   THEN {share.ephemeralPublicKey} ELSE {})
    ELSE {share}

\* the texts a response body of a node route carries
BodyTexts(body) ==
    CASE body.kind = "nodes" ->
             {body.nodes[i].publicKey : i \in 1..Len(body.nodes)}
      [] body.kind = "reencrypted" ->
             {body.nodePublicKey} \cup ShareTexts(body.reEncryptedShare)
      [] body.kind = "encrypted" ->
             UNION {ShareTexts(body.encryptedShares[i].encryptedShare) :
                        i \in 1..Len(body.encryptedShares)}
      [] body.kind = "error" -> {Text(body.error)}
      [] OTHER -> {}

\* everything the process has let out: the last response and the console
Published == BodyTexts(nResp.body) \cup {l.value : l \in nLog}

\* C17: no response body of a node route and no console line carries a
\* node's secretKey; the only keys published are public keys.
C17_SecretKeysStayInside ==
    /\ \A n \in Nodes : encodeBase64(nodeKeys[n].secretKey) \notin Published
    /\ \A n \in Nodes : nodeKeys[n].secretKey \notin {t.of : t \in {u \in Published : u.kind = "b64"}}
    /\ \A t \in Published : t.kind = "b64" => t.of.kind # "sk"

\* the public keys were served, after a request that threw was logged
C17_Witness ==
    /\ nResp.route = "nodes"
    /\ \A n \in Nodes : nodeKeys[n].publicKey \in BodyTexts(nResp.body)
    /\ nodeKeys["alpha"].publicKey = encodeBase64(PublicOf(nodeKeys["alpha"].secretKey))
    /\ \E l \in nLog : l.line = "error"

-----------------------------------------------------------------------------
(* Node identity *)

\* the public key derived from the SHA-256 digest of a seed
DerivedPublicKey(seed) == encodeBase64(keyPairFromSecretKey(sha256(seed)).publicKey)

\* C18: whenever a seed is supplied for a node, the node's key pair is a
\* function of the seed: its public key is the one derived from the SHA-256
\* digest of the seed, and a second start of the process with the same seed
\* gives the same public key; a random key pair is drawn only without a seed.
C18_DeterministicIdentity ==
    \A n \in Nodes :
        ~Falsy(nEnv[n]) =>
            /\ nodeKeys[n].publicKey = DerivedPublicKey(nEnv[n])
            /\ nStarts >= 2 => nodeKeys[n].publicKey = nPrev[n]

-----------------------------------------------------------------------------
(* Payload cipher *)

\* the blob is as encryptAES returned it
Untouched == aBlob = encryptAES(aIn.data, aIn.key, aIn.iv)

\* C19: encryptAES returns the 12-byte IV followed by the ciphertext with
\* its tag; decryptAES of that blob under the same key returns the
\* plaintext; decryptAES of a blob in which a bit was changed, or under a
\* different key, fails with an error and returns no plaintext at all.
C19_PayloadCipher ==
    /\ aPc = "encrypted" =>
           /\ Len(aBlob) = IvLength + Len(aIn.data) + TagLength
           /\ SubSeq(aBlob, 1, IvLength) = aIn.iv
           /\ SubSeq(aBlob, IvLength + 1, Len(aBlob))
                  = subtleEncrypt(aIn.key, aIn.iv, aIn.data)
    /\ aPc = "decrypted" =>
           IF Untouched /\ aOut.key = aIn.key
           THEN aOut.result = [ok |-> TRUE, value |-> aIn.data]
           ELSE ~aOut.result.ok /\ DOMAIN aOut.result = {"ok", "error"}

\* a two-byte plaintext, whose ciphertext differs from it, came back
C19_Witness ==
    /\ aPc = "decrypted"
    /\ Untouched
    /\ Len(aIn.data) = MaxPlain
    /\ SubSeq(aBlob, IvLength + 1, IvLength + MaxPlain) # aIn.data
    /\ aOut.result = [ok |-> TRUE, value |-> aIn.data]

-----------------------------------------------------------------------------
(* FileRegistry: owner-only mutation *)

OwnerOnlyMethods == {"updateFile", "deleteFile", "grantAccess", "revokeAccess"}

\* the sender of the transaction just evaluated is the registered owner of
\* the file it names, as the state stood before the transaction
SentByOwner ==
    /\ frTxn'.fileId \in DOMAIN registry.fileOwners
    /\ registry.fileOwners[frTxn'.fileId] = frTxn'.sender

\* C20: updateFile, deleteFile, grantAccess and revokeAccess are accepted
\* only when the transaction sender is the registered owner of the file; a
\* call by anyone else, or on a file that does not exist, is rejected and
\* leaves the whole contract state as it was; and no transaction changes
\* the owner of a registered file.
C20_OwnerOnlyMutation ==
    [][frTxns' # frTxns =>
          /\ (frTxn'.method \in OwnerOnlyMethods /\ frTxn'.ok) => SentByOwner
          /\ (frTxn'.method \in OwnerOnlyMethods /\ ~SentByOwner) =>
                 ~frTxn'.ok /\ registry' = registry
          /\ \A id \in DOMAIN registry.fileOwners :
                 /\ id \in DOMAIN registry'.fileOwners
                 /\ registry'.fileOwners[id] = registry.fileOwners[id]]_vars

\* acctB's updateFile on acctA's live file was rejected, and the file has
\* the CID it was registered with
C20_Witness ==
    /\ frTxn.method = "updateFile"
    /\ frTxn.sender = "acctB"
    /\ frTxn.fileId \in DOMAIN registry.fileOwners
    /\ registry.fileOwners[frTxn.fileId] = "acctA"
    /\ registry.fileIsDeleted[frTxn.fileId] = 0
    /\ ~frTxn.ok
    /\ frTxn.error = "Not the owner"
    /\ registry.fileCids[frTxn.fileId] = "cid1"

-----------------------------------------------------------------------------
(* FileRegistry: hasValidAccess *)

\* what the record of the accepted transactions says hasValidAccess is
AccessExpected(fileId, user) ==
    IF fileId \in frHistory.deleted THEN FALSE
    ELSE IF fileId \notin DOMAIN frHistory.owners THEN FALSE
    ELSE IF frHistory.owners[fileId] = user THEN TRUE
    ELSE /\ <<fileId, user>> \in DOMAIN frHistory.grants
         /\ \/ frHistory.grants[<<fileId, user>>] = 0
            \/ frHistory.grants[<<fileId, user>>] > frTime

-----------------------------------------------------------------------------
(* Claims about the GroupRegistry contract, checked under SpecGroups *)

InvitedBefore(groupId, user) ==
    /\ <<groupId, user>> \in DOMAIN groupRegistry.memberStatuses
    /\ groupRegistry.memberStatuses[<<groupId, user>>] = StatusInvited

\* how membership of <<groupId, user>> may begin in one transaction
JoinedBy(groupId, user) ==
    /\ grTxn'.ok
    /\ grTxn'.sender = user
    /\ grTxn'.groupId = groupId
    /\ \/ grTxn'.method = "createGroup"
       \/ grTxn'.method = "acceptInvite" /\ <<groupId, user>> \in grInvited

C22_Step ==
    /\ (grTxn'.ok /\ grTxn'.method \in {"inviteMember", "removeMember"})
           => isAdmin(groupRegistry, grTxn'.groupId, grTxn'.sender)
    /\ (grTxn'.ok /\ grTxn'.method \in {"acceptInvite", "rejectInvite"})
           => InvitedBefore(grTxn'.groupId, grTxn'.sender)
    /\ (grTxn'.ok /\ grTxn'.method = "leaveGroup")
           => isMember(groupRegistry, grTxn'.groupId, grTxn'.sender)
    /\ ~grTxn'.ok => groupRegistry' = groupRegistry
    /\ \A groupId \in ContractGroupIds, user \in Accounts :
           (isMember(groupRegistry', groupId, user) /\ ~isMember(groupRegistry, groupId, user))
               => JoinedBy(groupId, user)

\* C22: inviteMember and removeMember are accepted only from a sender who is
\* a joined admin of the group, acceptInvite and rejectInvite only from a
\* sender whose status is Invited, leaveGroup only from a sender whose status
\* is Joined; isMember(group, user) turns true only when the user creates the
\* group or accepts an invitation a joined admin issued; a rejected call
\* changes no state.
C22_MembershipProtocol == [][C22_Step]_vars

\* acctB has just joined group 1 by accepting the invitation of an admin, and
\* a group the contract never created has no member
C22_Witness ==
    /\ grTxn.method = "acceptInvite" /\ grTxn.ok
    /\ grTxn.sender = "acctB" /\ grTxn.groupId = 1
    /\ <<1, "acctB">> \in grInvited
    /\ isMember(groupRegistry, 1, "acctB")
    /\ isAdmin(groupRegistry, 1, "acctA")
    /\ ~isMember(groupRegistry, MaxGroups + 1, "acctB")


StatusOf(st, groupId, user) ==
    IF <<groupId, user>> \in DOMAIN st.memberStatuses
    THEN st.memberStatuses[<<groupId, user>>] ELSE StatusNone

RoleOf(st, groupId, user) ==
    IF <<groupId, user>> \in DOMAIN st.memberRoles
    THEN st.memberRoles[<<groupId, user>>] ELSE RoleMember

\* the transaction just evaluated removed <<groupId, user>> or was their leave
RemovedOrLeft(groupId, user) ==
    /\ grTxn'.ok
    /\ grTxn'.groupId = groupId
    /\ \/ /\ grTxn'.method = "removeMember"
          /\ grTxn'.user = user
          /\ isAdmin(groupRegistry, groupId, grTxn'.sender)
       \/ /\ grTxn'.method = "leaveGroup"
          /\ grTxn'.sender = user

C30_Step ==
    \A groupId \in ContractGroupIds, user \in Accounts :
        (/\ isMember(groupRegistry, groupId, user)
         /\ \/ StatusOf(groupRegistry', groupId, user) # StatusOf(groupRegistry, groupId, user)
            \/ RoleOf(groupRegistry', groupId, user) # RoleOf(groupRegistry, groupId, user))
            => RemovedOrLeft(groupId, user)

\* C30: once a user is Joined in a group, their status and role change only
\* through removeMember by a joined admin or through their own leaveGroup;
\* inviteMember leaves the status and role of a joined member as they are, so
\* the creator stays a joined admin until they leave or are removed.
C30_JoinedUntilRemovedOrLeft == [][C30_Step]_vars

-----------------------------------------------------------------------------
(* Claims about the login routes, checked under SpecAuth *)

\* the step answered a POST /api/auth/verify with a token
TokenIssued ==
    /\ authCount'[1] # authCount[1]
    /\ authResp'.route = "verify"
    /\ authResp'.status = 200

C23_Step ==
    TokenIssued =>
        /\ authLedger[authResp'.address].issued
        /\ authNow <= authLedger[authResp'.address].expiresAt
        /\ authResp'.nonce = authLedger[authResp'.address].nonce
        /\ authLedger[authResp'.address].tokens = 0

\* C23: POST /api/auth/verify issues a JWT for an address only if a nonce was
\* issued for that address before, has not expired, and the nonce submitted
\* in the request is the stored one; each issued nonce yields at most one
\* token.
C23_LoginVerification == [][C23_Step]_vars

-----------------------------------------------------------------------------
(* Claims about the field engine, checked under SpecField *)

\* C24: gfMul(a, b) is 0 when either operand is 0 and otherwise
\* EXP[(LOG[a] + LOG[b]) mod 255]; with the tables of initTables it is, for
\* all a and b in 0..255, the product of a and b in GF(2^8) modulo 0x11B
\* (shift-and-add multiplication with reduction); LOG and EXP are mutually
\* inverse on 1..255.
C24_FieldProduct ==
    /\ fPc = "mul" =>
          /\ fOut = FieldMul(fA, fB)
          /\ (fA = 0 \/ fB = 0) => fOut = 0
          /\ (fA # 0 /\ fB # 0) =>
                 fOut = EXP_TABLE[(LOG_TABLE[fA] + LOG_TABLE[fB]) % 255]
    /\ fA \in 1..255 =>
          /\ LOG_TABLE[fA] \in 0..254
          /\ EXP_TABLE[LOG_TABLE[fA]] = fA
    /\ fA \in 0..254 =>
          /\ EXP_TABLE[fA] \in 1..255
          /\ LOG_TABLE[EXP_TABLE[fA]] = fA

\* 0x53 times 0xCA is 1, and 0 times 0xCA is 0
C24_Witness ==
    /\ fPc = "mul" /\ fB = 202
    /\ \/ fA = 83 /\ fOut = 1
       \/ fA = 0 /\ fOut = 0

\* C25: gfDiv(a, b) throws for b = 0 whatever a is, a = 0 included; it is 0
\* for a = 0 and b # 0; for a in 0..255 and b in 1..255,
\* gfMul(gfDiv(a, b), b) = a and gfDiv(gfMul(a, b), b) = a.
C25_FieldQuotient ==
    /\ fPc = "div" =>
          /\ fB = 0 => fOut = DivByZero
          /\ (fA = 0 /\ fB # 0) => fOut = 0
          /\ fB # 0 => fOut \in 0..255 /\ FieldMul(fOut, fB) = fA
    /\ (fPc = "divmul" /\ fB # 0) => fOut = fA
    /\ (fPc = "muldiv" /\ fB # 0) => fOut = fA

\* 0 divided by 0 threw; 1 divided by 0xCA and multiplied back is 1
C25_Witness ==
    \/ fPc = "div" /\ fA = 0 /\ fB = 0 /\ fOut = DivByZero
    \/ fPc = "divmul" /\ fA = 1 /\ fB = 202 /\ fOut = 1

-----------------------------------------------------------------------------
(* The share index of a re-encrypt request *)

\* C26: a re-encrypt request whose shareIndex is not 0, 1 or 2, or is
\* missing, is answered 400 'Invalid share index' and no node key is used
\* for it; shareIndex 0, 1, 2 select alpha, beta, gamma.
C26_InvalidIndexRejected ==
    nReq.route = "reencrypt" =>
        IF nReq.body.shareIndex \in 0..2
        THEN nResp.status = 200 => nResp.body.nodeId = NodeIds[nReq.body.shareIndex + 1]
        ELSE /\ nResp.status = 400
             /\ nResp.body.kind = "error"
             /\ nResp.body.error = "Invalid share index"
             /\ Falsy(nLocals)


\* POST /api/encrypt-shares answered the last request with success
SharesAnswered == nResp.route = "encrypt-shares" /\ nResp.status = 200

\* the entry is an object whose encrypted field is a box holding share
SealsShare(entry, shareHex) ==
    /\ entry.encryptedShare.kind = "object"
    /\ decodeBase64(entry.encryptedShare.encrypted).ok
    /\ decodeBase64(entry.encryptedShare.encrypted).value.kind = "box"
    /\ decodeBase64(entry.encryptedShare.encrypted).value.msg = Bytes(MatchPairs(shareHex.of))

\* C27: every encryptedShare that POST /api/encrypt-shares returns is an
\* authenticated ciphertext of the submitted share, for a shares array of any
\* length, with or without senderPublicKey; a successful response carries no
\* submitted share as raw hex or raw bytes.
C27_SharesNeverInClear ==
    SharesAnswered =>
        \A i \in 1..Len(nResp.body.encryptedShares) :
            /\ SealsShare(nResp.body.encryptedShares[i], nReq.body.shares.of[i])
            /\ nResp.body.encryptedShares[i].encryptedShare # nReq.body.shares.of[i]

-----------------------------------------------------------------------------
(* Expiry of share entries, checked under Spec *)

\* entry i of u's share entries is in the listing GET /api/files/shared gives u
ListedFor(u, i) ==
    \E k \in 1..Len(SharedListHandler(u).body.files) :
        SharedListHandler(u).body.files[k].id = sharesStore[u][i].id

\* GET /api/files/shared/:shareId/key answers 410 for entry i of u
KeyGone(u, i, js) ==
    SharedKeyHandler(u, sharesStore[u][i].id, js).resp.status = 410

\* C28: at every time, a share entry is listed by GET /api/files/shared for
\* its recipient if and only if GET /api/files/shared/:shareId/key would
\* release key material for it (not 410), at t = expiresAt too; after expiry
\* the key route discloses neither key nor shares.
C28_ExpiryConsistent ==
    \A u \in Users : \A i \in 1..Len(sharesStore[u]) :
        \A js \in RandomJs(sharesStore[u][i].shares) :
            /\ ListedFor(u, i) <=> ~KeyGone(u, i, js)
            /\ (sharesStore[u][i].expiresAt > 0 /\ now > sharesStore[u][i].expiresAt)
                   => KeyGone(u, i, js)

-----------------------------------------------------------------------------
(* Deleted files, checked under Spec *)

\* GET /api/files/shared/:shareId/key releases key material of file id to u
\* through one of u's share entries
SharedKeyReleases(u, id) ==
    \E i \in 1..Len(sharesStore[u]) :
        /\ sharesStore[u][i].fileId = id
        /\ \E js \in RandomJs(sharesStore[u][i].shares) :
               SharedKeyHandler(u, sharesStore[u][i].id, js).resp.status = 200

\* GET /api/groups/:id/files/:fileId/key releases key material of file id to u
GroupKeyReleases(u, id) ==
    \E g \in 1..Len(groupsStore) :
        \E js \in RandomJs(GroupSharesOnFile(groupsStore[g].id, id)) :
            GroupKeyHandler(u, groupsStore[g].id, id, js).resp.status = 200

\* C29: once the owner's DELETE /api/files/:id has succeeded, no route
\* releases the file's encryption key or shares to anyone but the owner,
\* neither through share entries made before the deletion nor through the
\* group-file key route, and no new share can be made for the file.
C29_DeletionCutsOffRelease ==
    \A o \in Users : \A i \in 1..Len(filesStore[o]) :
        filesStore[o][i].isDeleted =>
            /\ LiveFileIdx(o, filesStore[o][i].id) = 0
            /\ \A u \in Users \ {o} :
                   /\ ~SharedKeyReleases(u, filesStore[o][i].id)
                   /\ ~GroupKeyReleases(u, filesStore[o][i].id)

=============================================================================
